---- MODULE Spec2Model ----
(***************************************************************************)
(* Lead processing and stage assignment of the BARRA CRM: the completion   *)
(* client (nvidiaAIService), the Facebook webhook handlers                 *)
(* (processLeadgenEvent, processMessagingEvent), the Messenger webhook     *)
(* with reanalyzeContactWithConversation, the bulk analyze endpoint and    *)
(* the tables they write.                                                  *)
(*                                                                         *)
(* Numbers: a confidence is kept in hundredths (0.3 is 30, 0.5 is 50).     *)
(* A missing JavaScript value (undefined, null, '') is the string          *)
(* "undefined".                                                            *)
(***************************************************************************)
EXTENDS Integers, Sequences, FiniteSets, Bags, TLC

VARIABLES
    contacts,      \* table contacts, in insertion order; a contact's id is its index
    messages,      \* table messages, in creation order
    assignments,   \* table contact_stage_assignments, a set of rows
    logs,          \* table ai_analysis_logs, a bag of rows
    capi,          \* the calls of sendConversionEvent made so far, a bag
    req,           \* per request slot: the running HTTP invocation and its locals
    started,       \* number of events accepted so far
    aiIn,          \* input of a call of the completion client's functions
    aiOut,         \* its result
    pipelines,     \* table pipelines, a set of rows
    facebook_configs,  \* table facebook_configs, a set of rows
    revenue_tracking   \* table revenue_tracking, in insertion order

vars == <<contacts, messages, assignments, logs, capi, req, started, aiIn, aiOut,
          pipelines, facebook_configs, revenue_tracking>>

Undefined == "undefined"

(***************************************************************************)
(* Bounds                                                                  *)
(***************************************************************************)
MaxStages == 3      \* longest candidate stage list handed to the selector
MaxEvents == 2      \* events accepted in one behaviour
MaxBatch == 2       \* events carried by one webhook delivery

(***************************************************************************)
(* Pipelines and stages of the owner (tables pipelines, pipeline_stages).  *)
(* p1 is the default pipeline; its stages are not stored in order_index    *)
(* order. p2 is a second pipeline of the same owner. The rows of           *)
(* pipeline_stages are those of the pipelines an owner can have; a         *)
(* pipeline p3 has none.                                                   *)
(***************************************************************************)
ownerPipelines ==
    { [id |-> "p1", is_default |-> TRUE],
      [id |-> "p2", is_default |-> FALSE] }

pipeline_stages ==
    { [id |-> "s1", pipeline_id |-> "p1", order_index |-> 1, capi_event_name |-> "Lead"],
      [id |-> "s2", pipeline_id |-> "p1", order_index |-> 0, capi_event_name |-> Undefined],
      [id |-> "s3", pipeline_id |-> "p1", order_index |-> 2, capi_event_name |-> "Purchase"],
      [id |-> "t1", pipeline_id |-> "p2", order_index |-> 0, capi_event_name |-> "Contact"] }

StageIds == { s.id : s \in pipeline_stages }

\* stage lists without repetition, of length 1..MaxStages
RECURSIVE StageLists(_)
StageLists(n) ==
    IF n = 0 THEN { <<>> }
    ELSE LET shorter == StageLists(n - 1)
         IN  shorter \cup
             { Append(l, s) : l \in { x \in shorter : Len(x) = n - 1 },
                              s \in pipeline_stages }

NoRepeat(l) == \A i, j \in 1..Len(l) : l[i].id = l[j].id => i = j

CandidateLists ==
    { l \in StageLists(MaxStages) :
        /\ Len(l) > 0
        /\ NoRepeat(l)
        /\ \A i \in 1..Len(l) : l[i].pipeline_id = l[1].pipeline_id }

(***************************************************************************)
(* The completion endpoint's answer.                                       *)
(*   key   the NVIDIA_API_KEY is set                                       *)
(*   ok    the HTTP response is 2xx                                        *)
(*   wrap  how the text carries its JSON: "bare" (the JSON alone),         *)
(*         "fenced" (a ``` block, possibly with prose around it),          *)
(*         "prose" (JSON with text around it, no fence)                    *)
(*   kind  what the carried text is: "object", "array", "scalar" (a JSON   *)
(*         number or string), "null", "garbage" (no JSON), "empty" (no     *)
(*         content)                                                        *)
(***************************************************************************)
Wraps == {"bare", "fenced", "prose"}

NoObj == [stage_id |-> Undefined, confidence |-> [num |-> FALSE, val |-> 0],
          reasoning |-> Undefined]

StageObjs ==
    [stage_id : StageIds \cup {"nonexistent", Undefined},
     confidence : { [num |-> FALSE, val |-> 0], [num |-> TRUE, val |-> 0],
                    [num |-> TRUE, val |-> 90], [num |-> TRUE, val |-> 150] },
     reasoning : {"because", Undefined}]

Contents(objs, none) ==
    { [wrap |-> w, kind |-> "object", obj |-> o] : w \in Wraps, o \in objs }
    \cup { [wrap |-> w, kind |-> k, obj |-> none] :
             w \in Wraps, k \in {"scalar", "null", "garbage"} }
    \cup { [wrap |-> "bare", kind |-> "empty", obj |-> none] }

Responses(objs, none) ==
    { [key |-> TRUE, ok |-> TRUE, content |-> c] : c \in Contents(objs, none) }
    \cup { [key |-> k, ok |-> o, content |-> [wrap |-> "bare", kind |-> "empty", obj |-> none]] :
             k \in BOOLEAN, o \in BOOLEAN }

StageResponses == Responses(StageObjs, NoObj)

(***************************************************************************)
(* callNvidiaAPI: throws without an API key and on a non-2xx response,     *)
(* otherwise returns the content of the first choice ('' when absent).     *)
(***************************************************************************)
callNvidiaAPI(resp) ==
    IF ~resp.key THEN [threw |-> TRUE, content |-> resp.content]
    ELSE IF ~resp.ok THEN [threw |-> TRUE, content |-> resp.content]
    ELSE [threw |-> FALSE, content |-> resp.content]

(***************************************************************************)
(* The body of the try block up to JSON.parse: take the inside of the      *)
(* first ``` block when there is one, trim, parse. JSON.parse throws on    *)
(* text that is not exactly one JSON value.                                *)
(***************************************************************************)
parseContent(content) ==
    LET jsonMatch == content.wrap = "fenced"
        parses == /\ content.kind \in {"object", "array", "scalar", "null"}
                  /\ (jsonMatch \/ content.wrap = "bare")
    IN  [threw |-> ~parses, kind |-> content.kind, obj |-> content.obj]

\* the lookup without the membership test
findStageId_unchecked(stages, id) == id

\* stages.find(s => s.id === id)?.id
findStageId(stages, id) ==
    IF \E i \in 1..Len(stages) : stages[i].id = id
    THEN id
    ELSE Undefined

\* stages[0]?.id
firstStageId(stages) == IF Len(stages) > 0 THEN stages[1].id ELSE Undefined

DefaultConfidence == 50
FailedConfidence == 30

\* Number(x) || 0.5
numberOr(c, dflt) == IF c.num /\ c.val # 0 THEN c.val ELSE dflt

\* x || dflt on a string
strOr(x, dflt) == IF x = Undefined THEN dflt ELSE x

(***************************************************************************)
(* assignContactToStage: the completion call is made before the try        *)
(* block, so its exception leaves the function; a parse failure and a      *)
(* property read on null are caught and answered with the default.         *)
(***************************************************************************)
NoSuggestion ==
    [threw |-> TRUE, recommended_stage_id |-> Undefined, confidence |-> 0,
     reasoning |-> Undefined]

assignContactToStage(resp, stages) ==
    LET result == callNvidiaAPI(resp)
        parsed == parseContent(result.content)
        assignment == parsed.obj
        validStageId == strOr(findStageId(stages, assignment.stage_id),
                              firstStageId(stages))
    IN  IF result.threw THEN NoSuggestion
        ELSE IF parsed.threw \/ parsed.kind = "null"
        THEN [threw |-> FALSE,
              recommended_stage_id |-> strOr(firstStageId(stages), ""),
              confidence |-> FailedConfidence,
              reasoning |-> "Default assignment - analysis failed"]
        ELSE [threw |-> FALSE,
              recommended_stage_id |-> validStageId,
              confidence |-> numberOr(assignment.confidence, DefaultConfidence),
              reasoning |-> strOr(assignment.reasoning, "")]

(***************************************************************************)
(* analyzeContact: as above the completion call precedes the try block.    *)
(* Inside it, a missing summary or intent, an urgency outside the enum     *)
(* and a tags value that is no array are replaced field by field.          *)
(***************************************************************************)
NoTags == [isArray |-> FALSE, items |-> <<>>]

NoAnalysisObj ==
    [summary |-> Undefined, intent |-> Undefined, urgency |-> Undefined, tags |-> NoTags]

AnalysisObjs ==
    [summary : {"wants a quote", Undefined},
     intent : {"purchase", Undefined},
     urgency : {"low", "medium", "high", "urgent", Undefined},
     tags : { NoTags, [isArray |-> TRUE, items |-> <<>>],
              [isArray |-> TRUE, items |-> <<"hot">>] }]

AnalysisResponses == Responses(AnalysisObjs, NoAnalysisObj)

Urgencies == {"low", "medium", "high"}

FallbackAnalysis ==
    [summary |-> "Analysis pending", intent |-> "Unknown", urgency |-> "medium",
     tags |-> <<>>]

NoAnalysis ==
    [summary |-> Undefined, intent |-> Undefined, urgency |-> Undefined, tags |-> <<>>]

analyzeContact(resp) ==
    LET result == callNvidiaAPI(resp)
        parsed == parseContent(result.content)
        analysis == parsed.obj
    IN  IF result.threw THEN [threw |-> TRUE, analysis |-> NoAnalysis]
        ELSE IF parsed.threw \/ parsed.kind = "null"
        THEN [threw |-> FALSE, analysis |-> FallbackAnalysis]
        ELSE [threw |-> FALSE,
              analysis |->
                [summary |-> strOr(analysis.summary, "No summary available"),
                 intent |-> strOr(analysis.intent, "Unknown"),
                 urgency |-> IF analysis.urgency \in Urgencies
                             THEN analysis.urgency ELSE "medium",
                 tags |-> IF analysis.tags.isArray THEN analysis.tags.items ELSE <<>>]]

(***************************************************************************)
(* Calls of the completion client's functions on every input of the        *)
(* bounded sets: aiIn is the call, aiOut its result once it has returned   *)
(* or thrown.                                                              *)
(***************************************************************************)
IdleResp == [key |-> TRUE, ok |-> TRUE,
             content |-> [wrap |-> "bare", kind |-> "empty", obj |-> NoObj]]

NoCall == [fn |-> "none", resp |-> IdleResp, stages |-> <<>>, ids |-> <<>>]

NoOut == [done |-> FALSE, suggestion |-> NoSuggestion,
          analysis |-> [threw |-> TRUE, analysis |-> NoAnalysis],
          bulk |-> [threw |-> TRUE, assignments |-> <<>>]]

AICalls ==
    { [fn |-> "assignContactToStage", resp |-> r, stages |-> l, ids |-> <<>>] :
        r \in StageResponses, l \in CandidateLists }
    \cup { [fn |-> "analyzeContact", resp |-> r, stages |-> <<>>, ids |-> <<>>] :
             r \in AnalysisResponses }

(***************************************************************************)
(* parseLeadData: one pass over the field list; the first value of each    *)
(* field, matched on the lower-cased name, anything else kept under the    *)
(* original name in customFields.                                          *)
(***************************************************************************)
\* the name as it is
toLowerCase_none(name) == name

\* field.name.toLowerCase()
toLowerCase(name) ==
    CASE name = "EMAIL" -> "email"
      [] name = "Phone" -> "phone"
      [] OTHER -> name

NoParsed ==
    [email |-> Undefined, phone |-> Undefined, firstName |-> Undefined,
     lastName |-> Undefined, fullName |-> Undefined, customFields |-> <<>>]

\* field.values[0] || ''
firstValue(field) == IF Len(field.values) > 0 THEN field.values[1] ELSE ""

\* result.customFields[name] = value
setField(map, name, value) ==
    [k \in (DOMAIN map) \cup {name} |-> IF k = name THEN value ELSE map[k]]

RECURSIVE parseLeadData(_)
parseLeadData(fieldData) ==
    IF Len(fieldData) = 0 THEN NoParsed
    ELSE LET result == parseLeadData(SubSeq(fieldData, 1, Len(fieldData) - 1))
             field == fieldData[Len(fieldData)]
             value == firstValue(field)
             fieldName == toLowerCase(field.name)
         IN  IF fieldName = "email" THEN [result EXCEPT !.email = value]
             ELSE IF fieldName = "phone_number" \/ fieldName = "phone"
                  THEN [result EXCEPT !.phone = value]
             ELSE IF fieldName = "first_name" THEN [result EXCEPT !.firstName = value]
             ELSE IF fieldName = "last_name" THEN [result EXCEPT !.lastName = value]
             ELSE IF fieldName = "full_name" THEN [result EXCEPT !.fullName = value]
             ELSE [result EXCEPT !.customFields = setField(@, field.name, value)]

\* JavaScript truthiness of a string-valued field
truthy(x) == x # Undefined /\ x # ""

\* parsed.fullName || `${firstName || ''} ${lastName || ''}`.trim() || null
\* (the joined name is kept as the pair of its parts)
fullNameOf(parsed) ==
    IF truthy(parsed.fullName) THEN parsed.fullName
    ELSE IF truthy(parsed.firstName) /\ truthy(parsed.lastName)
         THEN "first last"
    ELSE IF truthy(parsed.firstName) THEN parsed.firstName
    ELSE IF truthy(parsed.lastName) THEN parsed.lastName
    ELSE Undefined

(***************************************************************************)
(* The lead forms Graph API returns for a leadgen id.                      *)
(***************************************************************************)
LeadForms ==
    { << [name |-> "email", values |-> <<"a@b.com">>],
         [name |-> "phone_number", values |-> <<"555-1212">>],
         [name |-> "first_name", values |-> <<"Jo">>] >> }

(***************************************************************************)
(* The lead-quality score computed inline by processLeadgenEvent.          *)
(***************************************************************************)
HighUrgencyPoints == 40
MediumUrgencyPoints == 25
LowUrgencyPoints == 10
FieldPoints == 10
CustomFieldCap == 30
ScoreCap == 100

Min(a, b) == IF a < b THEN a ELSE b

\* the sum without the two caps
leadQualityScore_uncapped(contact, urgency, customFields) ==
    (IF truthy(contact.email) THEN FieldPoints ELSE 0)
  + (IF truthy(contact.phone) THEN FieldPoints ELSE 0)
  + (IF truthy(contact.full_name) THEN FieldPoints ELSE 0)
  + (IF urgency = "high" THEN HighUrgencyPoints ELSE 0)
  + Cardinality(DOMAIN customFields) * FieldPoints

leadQualityScore(contact, urgency, customFields) ==
    LET completeness ==
            (IF truthy(contact.email) THEN FieldPoints ELSE 0)
          + (IF truthy(contact.phone) THEN FieldPoints ELSE 0)
          + (IF truthy(contact.full_name) THEN FieldPoints ELSE 0)
        urgencyPoints ==
            CASE urgency = "high" -> HighUrgencyPoints
              [] urgency = "medium" -> MediumUrgencyPoints
              [] urgency = "low" -> LowUrgencyPoints
              [] OTHER -> 0
        customFieldCount == Cardinality(DOMAIN customFields)
    IN  Min(ScoreCap,
            completeness + urgencyPoints
              + Min(CustomFieldCap, customFieldCount * FieldPoints))

(***************************************************************************)
(* Tables.                                                                 *)
(***************************************************************************)
ownerConfig == [user_id |-> "owner", page_id |-> "page1", dataset_id |-> "dataset1"]

\* .from('facebook_configs').select('*').eq('page_id', pageId).single(), for
\* the one page of the owner
fbConfig == CHOOSE c \in facebook_configs : c.page_id = "page1"

\* the ai_analysis column: the analysis and, once a message handler wrote it,
\* message_count (0 while absent); the timestamps are left out
storedAnalysis(analysis, message_count) ==
    [summary |-> analysis.summary, intent |-> analysis.intent,
     urgency |-> analysis.urgency, tags |-> analysis.tags,
     message_count |-> message_count]

\* the row processLeadgenEvent inserts into contacts
newContact(leadgen_id, parsed) ==
    [facebook_lead_id |-> leadgen_id,
     facebook_page_id |-> fbConfig.page_id,
     email |-> parsed.email,
     phone |-> parsed.phone,
     first_name |-> parsed.firstName,
     last_name |-> parsed.lastName,
     full_name |-> fullNameOf(parsed),
     custom_fields |-> parsed.customFields,
     source |-> "webhook",
     ai_analysis |-> storedAnalysis(NoAnalysis, 0),
     lead_quality_score |-> 0,
     actual_revenue |-> 0,
     conversion_event_sent |-> FALSE]

sameKey(x, row) == x.contact_id = row.contact_id /\ x.pipeline_id = row.pipeline_id

\* contacts(id) exists: the foreign key of contact_stage_assignments.contact_id
contactExists(table, id) == id \in 1..Len(table)

\* .insert(row) under UNIQUE(contact_id, pipeline_id): a conflicting row is
\* rejected with an error, which no caller looks at
insertAssignment(table, row) ==
    IF \E x \in table : sameKey(x, row) THEN table ELSE table \cup {row}

\* the write without the conflict target on a table without the constraint
upsertAssignment_plainInsert(table, row) == table \cup {row}

\* .upsert(row, { onConflict: 'contact_id,pipeline_id' })
upsertAssignment(table, row) ==
    { x \in table : ~sameKey(x, row) } \cup {row}

\* .from('contact_stage_assignments').select(..).eq('contact_id', id).single():
\* data is null unless exactly one row matches
currentAssignment(table, id) ==
    LET rows == { x \in table : x.contact_id = id }
    IN  IF Cardinality(rows) = 1
        THEN (CHOOSE x \in rows : TRUE).stage_id
        ELSE Undefined

\* .from('pipelines').select('*, pipeline_stages(*)').eq('is_default', true).single()
defaultPipeline ==
    LET rows == { p \in pipelines : p.is_default }
    IN  IF Cardinality(rows) = 1 THEN (CHOOSE p \in rows : TRUE).id ELSE Undefined

\* the stages of all pipelines
stagesOf_all(pipeline_id) == pipeline_stages

\* pipeline.pipeline_stages of .select('*, pipeline_stages(*)')
stagesOf(pipeline_id) == { s \in pipeline_stages : s.pipeline_id = pipeline_id }

\* the stages by order_index descending
RECURSIVE sortStages_descending(_)
sortStages_descending(S) ==
    IF S = {} THEN <<>>
    ELSE LET first == CHOOSE s \in S : \A t \in S : s.order_index >= t.order_index
         IN  <<first>> \o sortStages_descending(S \ {first})

\* .sort((a, b) => a.order_index - b.order_index)
RECURSIVE sortStages(_)
sortStages(S) ==
    IF S = {} THEN <<>>
    ELSE LET first == CHOOSE s \in S : \A t \in S : s.order_index <= t.order_index
         IN  <<first>> \o sortStages(S \ {first})

\* stages.find(s => s.id === id)
findStage(stages, id) ==
    IF \E i \in 1..Len(stages) : stages[i].id = id
    THEN stages[CHOOSE i \in 1..Len(stages) : stages[i].id = id]
    ELSE [id |-> Undefined, pipeline_id |-> Undefined, order_index |-> 0,
          capi_event_name |-> Undefined]

(***************************************************************************)
(* sendConversionEvent: one POST to the dataset's events endpoint; a       *)
(* non-2xx answer is thrown.                                               *)
(***************************************************************************)
sendConversionEvent(datasetId, eventName, externalId, stage_id, httpOk) ==
    [threw |-> ~httpOk,
     call |-> [dataset_id |-> datasetId, event_name |-> eventName,
               external_id |-> externalId, pipeline_stage |-> stage_id,
               ok |-> httpOk]]

(***************************************************************************)
(* Requests. The hosting environment runs HTTP invocations concurrently;   *)
(* each one is a linear sequence of awaited calls. A slot holds one        *)
(* invocation: the event being handled, the events of the delivery still   *)
(* to come, the position in the handler and the handler's locals. A step   *)
(* of a handler is one access to a table or one call of the CAPI endpoint, *)
(* together with the completion calls and local computation before it;     *)
(* the insert into ai_analysis_logs, which nothing reads, goes with the    *)
(* write it follows.                                                       *)
(***************************************************************************)
Slots == {"a", "b"}

LeadIds == {"L1"}
Senders == {"L1"}
MessageIds == {"m1"}
Texts == {"I want to buy", "hello"}

NoEvent == [type |-> "none", id |-> Undefined, mid |-> Undefined, text |-> Undefined]

\* no JSON body of POST /api/pipelines or POST /api/contacts
NoBody == [is_default |-> FALSE, id |-> Undefined]

LeadgenEvents ==
    { [type |-> "leadgen", id |-> l, mid |-> Undefined, text |-> Undefined] :
        l \in LeadIds }

MessagingEvents ==
    { [type |-> "message", id |-> s, mid |-> m, text |-> t] :
        s \in Senders, m \in MessageIds, t \in Texts }

RECURSIVE Batches(_, _)
Batches(E, n) ==
    IF n = 0 THEN { <<>> }
    ELSE LET shorter == Batches(E, n - 1)
         IN  shorter \cup { Append(q, e) : q \in { x \in shorter : Len(x) = n - 1 },
                                            e \in E }

Idle ==
    [kind |-> "idle", pc |-> "idle", event |-> NoEvent, queue |-> <<>>,
     contact |-> 0, selected |-> Undefined,
     pipeline_id |-> Undefined, todo |-> <<>>, analyzed |-> <<>>, out |-> <<>>,
     signature |-> Undefined, status |-> 0, body |-> NoBody, history |-> <<>>,
     amount |-> 0, send_to_facebook |-> FALSE, revenue |-> 0, current |-> 0]

(***************************************************************************)
(* verifyWebhookSignature. The digest is kept as the pair it is computed   *)
(* from, written payload#key; two digests are equal exactly when payload   *)
(* and key are.                                                            *)
(***************************************************************************)
AppSecret == "app-secret"
RawBody == "body"

HmacSHA256(payload, key) == payload \o "#" \o key

\* the comparison that any signature passes
verifyWebhookSignature_any(payload, signature, appSecret) == TRUE

\* signature === 'sha256=' + CryptoJS.HmacSHA256(payload, appSecret).toString()
verifyWebhookSignature(payload, signature, appSecret) ==
    signature = "sha256=" \o HmacSHA256(payload, appSecret)

\* the x-hub-signature-256 headers a request can carry ('' when absent)
Signatures ==
    { "sha256=" \o HmacSHA256(RawBody, AppSecret),
      HmacSHA256(RawBody, AppSecret),
      "sha256=" \o HmacSHA256(RawBody, "guess"),
      "sha256=" \o HmacSHA256("other body", AppSecret),
      "" }

\* the header Facebook computes for the body it sends
FacebookSignatures == { "sha256=" \o HmacSHA256(RawBody, AppSecret) }

Unauthorized == 401

\* return NextResponse.json({ error: 'Invalid signature' }, { status: 401 })
invalidSignature(signature) ==
    [Idle EXCEPT !.signature = signature, !.status = Unauthorized]

\* the first position of the handler the POST loop calls for an event
startPc(kind, ev) ==
    IF kind = "messenger" THEN "mgr_save"
    ELSE IF ev.type = "leadgen" THEN "lead_create"
    ELSE "msg_save"

\* the return of a handler that ends the whole request
endEvent_abort(rq) == Idle

\* a handler returns (normally, or from its own catch block): the POST loop
\* goes on with the next event of the delivery; after the last one the
\* request is answered
endEvent(rq) ==
    IF Len(rq.queue) > 0
    THEN [Idle EXCEPT !.kind = rq.kind,
                      !.signature = rq.signature,
                      !.event = Head(rq.queue),
                      !.queue = Tail(rq.queue),
                      !.pc = startPc(rq.kind, Head(rq.queue))]
    ELSE Idle

\* the exception leaves the handler and the POST loop: the request ends
capiCatch_rethrow(rq) == Idle

\* catch (capiError) { console.error(...) }: the handler goes on
\* a catch block that leaves the handler at the post, to send it again
capiCatch_retry(rq) == rq

capiCatch(rq) == endEvent(rq)

logRow(contact_id, action_type) == [contact_id |-> contact_id, action_type |-> action_type]

\* The tables after the lead L1 was processed: analysis answered with
\* urgency high, stage s1 selected, the Lead event sent.
processedLead ==
    LET created == newContact("L1", parseLeadData(CHOOSE f \in LeadForms : TRUE))
        analysis == [summary |-> "No summary available", intent |-> "Unknown",
                     urgency |-> "high", tags |-> <<>>]
    IN  [contacts |-> << [created EXCEPT
                             !.ai_analysis = storedAnalysis(analysis, 0),
                             !.lead_quality_score =
                                leadQualityScore(created, "high", created.custom_fields)] >>,
         assignments |-> { [contact_id |-> 1, stage_id |-> "s1", pipeline_id |-> "p1"] },
         logs |-> SetToBag({ logRow(1, "analyze_contact"), logRow(1, "assign_stage") }),
         capi |-> SetToBag({ sendConversionEvent(fbConfig.dataset_id, "Lead", 1, "s1",
                                                 TRUE).call })]

emptyTables ==
    [contacts |-> <<>>, assignments |-> {}, logs |-> EmptyBag, capi |-> EmptyBag]

Init ==
    /\ pipelines = ownerPipelines
    /\ facebook_configs = {ownerConfig}
    /\ revenue_tracking = <<>>
    /\ \E tables \in {emptyTables, processedLead} :
         /\ contacts = tables.contacts
         /\ assignments = tables.assignments
         /\ logs = tables.logs
         /\ capi = tables.capi
    /\ messages = <<>>
    /\ req = [r \in Slots |-> Idle]
    /\ started = 0
    /\ aiIn = NoCall
    /\ aiOut = NoOut

db == <<contacts, messages, assignments, logs, capi>>
ai == <<aiIn, aiOut>>
setup == <<pipelines, facebook_configs, revenue_tracking>>
rest == <<ai, setup>>

\* POST /api/webhooks/facebook: the signature check, then the loop over the
\* events of the body; signatures are the headers and events the events the
\* sender may use
FacebookPOST(r, signatures, events) ==
    /\ req[r].kind = "idle"
    /\ \E signature \in signatures, batch \in Batches(events, MaxBatch) :
         IF ~verifyWebhookSignature(RawBody, signature, AppSecret)
         THEN /\ req' = [req EXCEPT ![r] = invalidSignature(signature)]
              /\ UNCHANGED started
         ELSE /\ Len(batch) > 0
              /\ started + Len(batch) <= MaxEvents
              /\ started' = started + Len(batch)
              /\ req' = [req EXCEPT ![r] =
                           [Idle EXCEPT !.kind = "facebook",
                                        !.signature = signature,
                                        !.event = Head(batch),
                                        !.queue = Tail(batch),
                                        !.pc = startPc("facebook", Head(batch))]]
    /\ UNCHANGED <<db, rest>>

(***************************************************************************)
(* processLeadgenEvent                                                     *)
(***************************************************************************)
\* config lookup (no row for the page: configOk is false), fetchLeadDetails,
\* parseLeadData, insert into contacts
Lead_Create(r) ==
    LET rq == req[r] IN
    /\ rq.pc = "lead_create"
    /\ \E configOk \in BOOLEAN, fetchOk \in BOOLEAN, form \in LeadForms,
          insertOk \in BOOLEAN :
         IF configOk /\ fetchOk /\ insertOk
         THEN /\ contacts' = Append(contacts, newContact(rq.event.id, parseLeadData(form)))
              /\ req' = [req EXCEPT ![r] = [rq EXCEPT !.pc = "lead_analyze",
                                                      !.contact = Len(contacts) + 1]]
         ELSE /\ req' = [req EXCEPT ![r] = endEvent(rq)]
              /\ UNCHANGED contacts
    /\ UNCHANGED <<messages, assignments, logs, capi, started, rest>>

\* the answers of the completion endpoint the handlers are run against
MainAnalysisResponses ==
    { x \in AnalysisResponses :
        /\ x.key
        /\ x.content.wrap = "bare"
        /\ (x.ok => x.content.kind \in {"object", "garbage"})
        /\ x.content.obj.summary = Undefined
        /\ x.content.obj.intent = Undefined
        /\ (x.content.kind = "object" => x.content.obj.urgency = "high")
        /\ x.content.obj.tags = NoTags }

MainStageResponses ==
    { x \in StageResponses :
        /\ x.key
        /\ x.content.wrap = "bare"
        /\ (x.ok => x.content.kind \in {"object", "garbage"})
        /\ (x.content.kind = "object" =>
               x.content.obj.stage_id \in {"s1", "s3", "nonexistent"})
        /\ x.content.obj.confidence = NoObj.confidence
        /\ x.content.obj.reasoning = Undefined }

\* analyzeContact, the score, update of contacts, insert into
\* ai_analysis_logs, lookup of the default pipeline
Lead_Analyze(r) ==
    LET rq == req[r]
        contact == contacts[rq.contact]
    IN
    /\ rq.pc = "lead_analyze"
    /\ \E resp \in MainAnalysisResponses :
         LET analysisResult == analyzeContact(resp) IN
         IF analysisResult.threw
         THEN /\ req' = [req EXCEPT ![r] = endEvent(rq)]
              /\ UNCHANGED <<contacts, logs>>
         ELSE /\ contacts' =
                   [contacts EXCEPT ![rq.contact] =
                      [contact EXCEPT
                         !.ai_analysis = storedAnalysis(analysisResult.analysis, 0),
                         !.lead_quality_score =
                            leadQualityScore(contact, analysisResult.analysis.urgency,
                                             contact.custom_fields)]]
              /\ logs' = logs (+) SetToBag({logRow(rq.contact, "analyze_contact")})
              /\ req' = [req EXCEPT ![r] =
                           IF defaultPipeline # Undefined /\ stagesOf(defaultPipeline) # {}
                           THEN [rq EXCEPT !.pc = "lead_assign"]
                           ELSE endEvent(rq)]
    /\ UNCHANGED <<messages, assignments, capi, started, rest>>

\* the test that leaves out the dataset id
capiConfigured_eventOnly(stage, config) == truthy(stage.capi_event_name)

\* assignedStage?.capi_event_name && fbConfig.dataset_id
capiConfigured(stage, config) ==
    truthy(stage.capi_event_name) /\ truthy(config.dataset_id)

\* assignContactToStage, insert into contact_stage_assignments, insert into
\* ai_analysis_logs, the test whether an event is to be sent
Lead_Assign(r) ==
    LET rq == req[r]
        stages == sortStages(stagesOf(defaultPipeline))
    IN
    /\ rq.pc = "lead_assign"
    /\ \E resp \in MainStageResponses :
         LET stageResult == assignContactToStage(resp, stages)
             assignedStage == findStage(stages, stageResult.recommended_stage_id)
         IN
         IF stageResult.threw
         THEN /\ req' = [req EXCEPT ![r] = endEvent(rq)]
              /\ UNCHANGED <<assignments, logs>>
         ELSE /\ assignments' =
                   insertAssignment(assignments,
                      [contact_id |-> rq.contact,
                       stage_id |-> stageResult.recommended_stage_id,
                       pipeline_id |-> defaultPipeline])
              /\ logs' = logs (+) SetToBag({logRow(rq.contact, "assign_stage")})
              /\ req' = [req EXCEPT ![r] =
                           IF capiConfigured(assignedStage, fbConfig)
                           THEN [rq EXCEPT !.pc = "lead_capi",
                                           !.selected = stageResult.recommended_stage_id]
                           ELSE endEvent(rq)]
    /\ UNCHANGED <<contacts, messages, capi, started, rest>>

\* try { await sendConversionEvent(...) } catch (capiError) { ... }
SendCapi(r) ==
    LET rq == req[r]
        stages == sortStages(stagesOf(defaultPipeline))
        stage == findStage(stages, rq.selected)
    IN
    /\ \E httpOk \in BOOLEAN :
         LET sent == sendConversionEvent(fbConfig.dataset_id, stage.capi_event_name,
                                          rq.contact, stage.id, httpOk)
         IN  /\ capi' = capi (+) SetToBag({sent.call})
             /\ req' = [req EXCEPT ![r] =
                          IF sent.threw THEN capiCatch(rq) ELSE endEvent(rq)]
    /\ UNCHANGED <<contacts, messages, assignments, logs, started, rest>>

Lead_Capi(r) ==
    /\ req[r].pc = "lead_capi"
    /\ SendCapi(r)

processLeadgenEvent(r) ==
    \/ Lead_Create(r)
    \/ Lead_Analyze(r)
    \/ Lead_Assign(r)
    \/ Lead_Capi(r)

(***************************************************************************)
(* processMessagingEvent of the Facebook webhook                           *)
(***************************************************************************)
\* custom_fields?.psid
psidOf(contact) ==
    IF "psid" \in DOMAIN contact.custom_fields
    THEN contact.custom_fields["psid"]
    ELSE Undefined

\* .eq('facebook_page_id', pageId) and the test on psid and facebook_lead_id
matches(contact, senderId) ==
    /\ contact.facebook_page_id = fbConfig.page_id
    /\ (psidOf(contact) = senderId \/ contact.facebook_lead_id = senderId)

\* the test that never holds
notFromWebhook_never(contact) == FALSE

\* matchingContact.source !== 'webhook'
notFromWebhook(contact) == contact.source # "webhook"

\* a search that settles for the first contact of the page
matchingContact_first(table, senderId) == IF Len(table) > 0 THEN 1 ELSE 0

\* contacts?.find(c => c.custom_fields?.psid === senderId || c.facebook_lead_id === senderId)
\* (0 when there is none)
matchingContact(table, senderId) ==
    IF \E i \in 1..Len(table) : matches(table[i], senderId)
    THEN CHOOSE i \in 1..Len(table) :
            /\ matches(table[i], senderId)
            /\ \A j \in 1..(i - 1) : ~matches(table[j], senderId)
    ELSE 0

\* a write that keeps one message per contact
insertMessage_perContact(table, row) ==
    SelectSeq(table, LAMBDA m : m.contact_id # row.contact_id) \o <<row>>

\* .from('messages').insert({...})
insertMessage(table, row) == Append(table, row)

messageRow(contact_id, ev) ==
    [contact_id |-> contact_id, direction |-> "inbound",
     facebook_message_id |-> ev.mid]

HistoryLimit == 20

\* .from('messages').select('*').eq('contact_id', id)
\*    .order('created_at', { ascending: true }).limit(20)
conversationHistory(table, contact_id) ==
    LET own == SelectSeq(table, LAMBDA m : m.contact_id = contact_id)
    IN  SubSeq(own, 1, Min(Len(own), HistoryLimit))

SelectorWindow == 10

\* messages.slice(-10), the messages assignContactToStage puts in its prompt
selectorMessages(history) ==
    SubSeq(history, Len(history) - Min(Len(history), SelectorWindow) + 1, Len(history))

\* A string is the sequence of its characters.
UpperCase ==
    <<"A", "B", "C", "D", "E", "F", "G", "H", "I", "J", "K", "L", "M",
      "N", "O", "P", "Q", "R", "S", "T", "U", "V", "W", "X", "Y", "Z">>

LowerCase ==
    <<"a", "b", "c", "d", "e", "f", "g", "h", "i", "j", "k", "l", "m",
      "n", "o", "p", "q", "r", "s", "t", "u", "v", "w", "x", "y", "z">>

toLower(c) ==
    IF \E i \in 1..Len(UpperCase) : UpperCase[i] = c
    THEN LowerCase[CHOOSE i \in 1..Len(UpperCase) : UpperCase[i] = c]
    ELSE c

\* value.toLowerCase()
lowerCased(value) == [i \in 1..Len(value) |-> toLower(value[i])]

\* the characters of the texts the events carry
charsOf(text) ==
    CASE text = "I want to buy" -> <<"I", " ", "w", "a", "n", "t", " ", "t", "o", " ", "b", "u", "y">>
      [] text = "hello" -> <<"h", "e", "l", "l", "o">>
      [] OTHER -> <<>>

\* the keywords of the detection
Keyword ==
    [buy |-> <<"b", "u", "y">>,
     purchase |-> <<"p", "u", "r", "c", "h", "a", "s", "e">>,
     order |-> <<"o", "r", "d", "e", "r">>,
     not_interested |-> <<"n", "o", "t", " ", "i", "n", "t", "e", "r", "e", "s", "t", "e", "d">>,
     cancel |-> <<"c", "a", "n", "c", "e", "l">>,
     price |-> <<"p", "r", "i", "c", "e">>,
     quote |-> <<"q", "u", "o", "t", "e">>,
     cost |-> <<"c", "o", "s", "t">>]

\* latestMessage.includes(word)
includes(text, word) ==
    \E i \in 1..(Len(text) - Len(word) + 1) :
        SubSeq(text, i, i + Len(word) - 1) = word

\* the detection that looks for the words of refusal first
keywordDecision_refusalFirst(text, urgency) ==
    LET latestMessage == lowerCased(text) IN
    IF includes(latestMessage, Keyword.not_interested)
          \/ includes(latestMessage, Keyword.cancel)
    THEN [shouldMoveStage |-> TRUE, newUrgency |-> "low"]
    ELSE IF includes(latestMessage, Keyword.buy)
          \/ includes(latestMessage, Keyword.purchase)
          \/ includes(latestMessage, Keyword.order)
    THEN [shouldMoveStage |-> TRUE, newUrgency |-> "high"]
    ELSE IF includes(latestMessage, Keyword.price)
          \/ includes(latestMessage, Keyword.quote)
          \/ includes(latestMessage, Keyword.cost)
    THEN [shouldMoveStage |-> TRUE, newUrgency |-> "medium"]
    ELSE [shouldMoveStage |-> FALSE, newUrgency |-> urgency]

\* latestMessage = messageText.toLowerCase() and the keyword detection:
\* shouldMoveStage and newUrgency
keywordDecision(text, urgency) ==
    LET latestMessage == lowerCased(text) IN
    IF includes(latestMessage, Keyword.buy)
          \/ includes(latestMessage, Keyword.purchase)
          \/ includes(latestMessage, Keyword.order)
    THEN [shouldMoveStage |-> TRUE, newUrgency |-> "high"]
    ELSE IF includes(latestMessage, Keyword.not_interested)
          \/ includes(latestMessage, Keyword.cancel)
    THEN [shouldMoveStage |-> TRUE, newUrgency |-> "low"]
    ELSE IF includes(latestMessage, Keyword.price)
          \/ includes(latestMessage, Keyword.quote)
          \/ includes(latestMessage, Keyword.cost)
    THEN [shouldMoveStage |-> TRUE, newUrgency |-> "medium"]
    ELSE [shouldMoveStage |-> FALSE, newUrgency |-> urgency]

\* config lookup, search of the contact, insert into messages
Msg_Save(r) ==
    LET rq == req[r]
        found == matchingContact(contacts, rq.event.id)
    IN
    /\ rq.pc = "msg_save"
    /\ \E configOk \in BOOLEAN :
       IF ~truthy(rq.event.text) \/ ~configOk \/ found = 0
       THEN /\ req' = [req EXCEPT ![r] = endEvent(rq)]
            /\ UNCHANGED messages
       ELSE IF notFromWebhook(contacts[found])
       THEN /\ req' = [req EXCEPT ![r] = endEvent(rq)]
            /\ UNCHANGED messages
       ELSE /\ \E insertOk \in BOOLEAN :
                 messages' = IF insertOk
                             THEN insertMessage(messages, messageRow(found, rq.event))
                             ELSE messages
            /\ req' = [req EXCEPT ![r] = [rq EXCEPT !.pc = "msg_analyze",
                                                    !.contact = found]]
    /\ UNCHANGED <<contacts, assignments, logs, capi, started, rest>>

\* read of the history and of the default pipeline, analyzeContact, the
\* keyword detection, update of contacts
Msg_Analyze(r) ==
    LET rq == req[r]
        history == conversationHistory(messages, rq.contact)
    IN
    /\ rq.pc = "msg_analyze"
    /\ IF defaultPipeline = Undefined \/ stagesOf(defaultPipeline) = {}
       THEN /\ req' = [req EXCEPT ![r] = endEvent(rq)]
            /\ UNCHANGED contacts
       ELSE \E resp \in MainAnalysisResponses :
              LET analysisResult == analyzeContact(resp)
                  decision == keywordDecision(charsOf(rq.event.text),
                                              analysisResult.analysis.urgency)
              IN
              IF analysisResult.threw
              THEN /\ req' = [req EXCEPT ![r] = endEvent(rq)]
                   /\ UNCHANGED contacts
              ELSE /\ contacts' =
                        [contacts EXCEPT ![rq.contact].ai_analysis =
                           storedAnalysis(
                              [analysisResult.analysis EXCEPT
                                  !.urgency = decision.newUrgency],
                              Len(history))]
                   /\ req' = [req EXCEPT ![r] =
                                IF decision.shouldMoveStage
                                THEN [rq EXCEPT !.pc = "msg_select",
                                                !.history = history]
                                ELSE endEvent(rq)]
    /\ UNCHANGED <<messages, assignments, logs, capi, started, rest>>

\* assignContactToStage, read of the current assignment, the comparison
Msg_Select(r) ==
    LET rq == req[r]
        stages == sortStages(stagesOf(defaultPipeline))
    IN
    /\ rq.pc = "msg_select"
    /\ \E resp \in MainStageResponses :
         LET stageResult == assignContactToStage(resp, stages)
             newStage == findStage(stages, stageResult.recommended_stage_id)
             current == currentAssignment(assignments, rq.contact)
         IN
         req' = [req EXCEPT ![r] =
                   IF stageResult.threw THEN endEvent(rq)
                   ELSE IF newStage.id # Undefined /\ newStage.id # current
                   THEN [rq EXCEPT !.pc = "msg_upsert",
                                   !.selected = newStage.id]
                   ELSE endEvent(rq)]
    /\ UNCHANGED <<db, started, rest>>

\* upsert into contact_stage_assignments, the test whether an event is sent
Msg_Upsert(r) ==
    LET rq == req[r]
        stages == sortStages(stagesOf(defaultPipeline))
        newStage == findStage(stages, rq.selected)
    IN
    /\ rq.pc = "msg_upsert"
    /\ assignments' =
          upsertAssignment(assignments,
             [contact_id |-> rq.contact, stage_id |-> newStage.id,
              pipeline_id |-> defaultPipeline])
    /\ req' = [req EXCEPT ![r] =
                 IF capiConfigured(newStage, fbConfig)
                 THEN [rq EXCEPT !.pc = "msg_capi"]
                 ELSE endEvent(rq)]
    /\ UNCHANGED <<contacts, messages, logs, capi, started, rest>>

Msg_Capi(r) ==
    /\ req[r].pc = "msg_capi"
    /\ SendCapi(r)

processMessagingEvent(r) ==
    \/ Msg_Save(r)
    \/ Msg_Analyze(r)
    \/ Msg_Select(r)
    \/ Msg_Upsert(r)
    \/ Msg_Capi(r)

(***************************************************************************)
(* analyzeConversationIntent: its own fetch inside a try block; whatever   *)
(* JSON object the text between the first { and the last } parses to is    *)
(* returned as it is, and every failure gives the default answer.          *)
(*   kind  "object" (the braces hold one JSON object), "garbage" (braces   *)
(*         that do not parse), "none" (no braces at all)                   *)
(* A key the object lacks is Undefined (for should_move_stage, FALSE).     *)
(***************************************************************************)
NoInsights == [urgency |-> Undefined, intent |-> Undefined, should_move_stage |-> FALSE]

InsightObjs ==
    [urgency : {"low", "medium", "high", "urgent", Undefined},
     intent : {"purchase", Undefined},
     should_move_stage : BOOLEAN]

IntentResponses ==
    { [ok |-> TRUE, kind |-> "object", obj |-> o] : o \in InsightObjs }
    \cup { [ok |-> o, kind |-> k, obj |-> NoInsights] :
             o \in BOOLEAN, k \in {"garbage", "none"} }

\* a default answer that asks for a move
analyzeConversationIntent_move(resp, baseAnalysis) ==
    IF resp.ok /\ resp.kind = "object"
    THEN resp.obj
    ELSE [urgency |-> baseAnalysis.urgency, intent |-> "unknown",
          should_move_stage |-> TRUE]

analyzeConversationIntent(resp, baseAnalysis) ==
    IF resp.ok /\ resp.kind = "object"
    THEN resp.obj
    ELSE [urgency |-> baseAnalysis.urgency, intent |-> "unknown",
          should_move_stage |-> FALSE]

\* { ...analysisResult.analysis, ...conversationInsights }
spread(analysis, insights) ==
    [analysis EXCEPT
        !.urgency = strOr(insights.urgency, @),
        !.intent = strOr(insights.intent, @)]

MainIntentResponses ==
    { x \in IntentResponses :
        /\ x.ok
        /\ x.kind \in {"object", "none"}
        /\ x.obj.intent = Undefined
        /\ x.obj.urgency = (IF x.obj.should_move_stage THEN "urgent" ELSE Undefined)
        /\ (x.kind = "object" => x.obj.should_move_stage) }

(***************************************************************************)
(* processMessagingEvent of the Messenger webhook and                      *)
(* reanalyzeContactWithConversation                                        *)
(***************************************************************************)
\* .or(`custom_fields->psid.eq.${senderId},facebook_lead_id.eq.${senderId}`).single()
\* (0 unless exactly one contact matches)
existingContact(table, senderId) ==
    LET found == { i \in 1..Len(table) : matches(table[i], senderId) }
    IN  IF Cardinality(found) = 1 THEN CHOOSE i \in found : TRUE ELSE 0

\* the messages without a keyword
HelloEvents == { e \in MessagingEvents : e.text = "hello" }

\* a message of a sender who is no contact of the owner
StrangerEvents ==
    { [type |-> "message", id |-> "stranger", mid |-> "m1", text |-> "hello"] }

\* POST /api/webhooks/messenger: the signature check, then the loop over the
\* events of the body; signatures are the headers and events the events the
\* sender may use
MessengerPOST(r, signatures, events) ==
    /\ req[r].kind = "idle"
    /\ \E signature \in signatures, batch \in Batches(events, MaxBatch) :
         IF ~verifyWebhookSignature(RawBody, signature, AppSecret)
         THEN /\ req' = [req EXCEPT ![r] = invalidSignature(signature)]
              /\ UNCHANGED started
         ELSE /\ Len(batch) > 0
              /\ started + Len(batch) <= MaxEvents
              /\ started' = started + Len(batch)
              /\ req' = [req EXCEPT ![r] =
                           [Idle EXCEPT !.kind = "messenger",
                                        !.signature = signature,
                                        !.event = Head(batch),
                                        !.queue = Tail(batch),
                                        !.pc = startPc("messenger", Head(batch))]]
    /\ UNCHANGED <<db, rest>>

\* config lookup, search of the contact, insert into messages
Mgr_Save(r) ==
    LET rq == req[r]
        found == existingContact(contacts, rq.event.id)
    IN
    /\ rq.pc = "mgr_save"
    /\ \E configOk \in BOOLEAN :
       IF ~truthy(rq.event.text) \/ ~configOk \/ found = 0
       THEN /\ req' = [req EXCEPT ![r] = endEvent(rq)]
            /\ UNCHANGED messages
       ELSE IF notFromWebhook(contacts[found])
       THEN /\ req' = [req EXCEPT ![r] = endEvent(rq)]
            /\ UNCHANGED messages
       ELSE /\ \E insertOk \in BOOLEAN :
                 messages' = IF insertOk
                             THEN insertMessage(messages, messageRow(found, rq.event))
                             ELSE messages
            /\ req' = [req EXCEPT ![r] = [rq EXCEPT !.pc = "re_analyze",
                                                    !.contact = found]]
    /\ UNCHANGED <<contacts, assignments, logs, capi, started, rest>>

\* read of the history, analyzeContact, analyzeConversationIntent, update of
\* contacts; without should_move_stage only reads follow
Re_Analyze(r) ==
    LET rq == req[r]
        history == conversationHistory(messages, rq.contact)
    IN
    /\ rq.pc = "re_analyze"
    /\ \E resp \in MainAnalysisResponses, intentResp \in MainIntentResponses :
         LET analysisResult == analyzeContact(resp)
             conversationInsights ==
                 analyzeConversationIntent(intentResp, analysisResult.analysis)
         IN
         IF analysisResult.threw
         THEN /\ req' = [req EXCEPT ![r] = endEvent(rq)]
              /\ UNCHANGED contacts
         ELSE /\ contacts' =
                   [contacts EXCEPT ![rq.contact].ai_analysis =
                      storedAnalysis(spread(analysisResult.analysis, conversationInsights),
                                     Len(history))]
              /\ req' = [req EXCEPT ![r] =
                           IF conversationInsights.should_move_stage
                           THEN [rq EXCEPT !.pc = "re_select",
                                           !.history = history]
                           ELSE endEvent(rq)]
    /\ UNCHANGED <<messages, assignments, logs, capi, started, rest>>

\* read of the current assignment and of the default pipeline,
\* assignContactToStage, the comparison
Re_Select(r) ==
    LET rq == req[r]
        current == currentAssignment(assignments, rq.contact)
        stages == sortStages(stagesOf(defaultPipeline))
    IN
    /\ rq.pc = "re_select"
    /\ IF defaultPipeline = Undefined \/ stagesOf(defaultPipeline) = {}
       THEN req' = [req EXCEPT ![r] = endEvent(rq)]
       ELSE \E resp \in MainStageResponses :
              LET stageResult == assignContactToStage(resp, stages)
                  newStage == findStage(stages, stageResult.recommended_stage_id)
              IN
              req' = [req EXCEPT ![r] =
                        IF stageResult.threw THEN endEvent(rq)
                        ELSE IF newStage.id # Undefined /\ newStage.id # current
                        THEN [rq EXCEPT !.pc = "re_upsert",
                                        !.selected = newStage.id]
                        ELSE endEvent(rq)]
    /\ UNCHANGED <<db, started, rest>>

\* upsert into contact_stage_assignments, insert into ai_analysis_logs, the
\* test whether an event is sent
Re_Upsert(r) ==
    LET rq == req[r]
        stages == sortStages(stagesOf(defaultPipeline))
        newStage == findStage(stages, rq.selected)
    IN
    /\ rq.pc = "re_upsert"
    /\ assignments' =
          upsertAssignment(assignments,
             [contact_id |-> rq.contact, stage_id |-> newStage.id,
              pipeline_id |-> defaultPipeline])
    /\ logs' = logs (+) SetToBag({logRow(rq.contact, "reanalyze")})
    /\ req' = [req EXCEPT ![r] =
                 IF capiConfigured(newStage, fbConfig)
                 THEN [rq EXCEPT !.pc = "re_capi"]
                 ELSE endEvent(rq)]
    /\ UNCHANGED <<contacts, messages, capi, started, rest>>

Re_Capi(r) ==
    /\ req[r].pc = "re_capi"
    /\ SendCapi(r)

reanalyzeContactWithConversation(r) ==
    \/ Re_Analyze(r)
    \/ Re_Select(r)
    \/ Re_Upsert(r)
    \/ Re_Capi(r)

(***************************************************************************)
(* bulkAssignContacts: one completion call for all contacts. An answer     *)
(* that is no array gives no assignment at all; a null element makes the   *)
(* map throw, which the catch block answers like a parse failure.          *)
(* A contact id is a row number of contacts; 0 is an id of no contact.     *)
(***************************************************************************)
BulkItems(ids) ==
    [isNull : BOOLEAN, contact_id : ids \cup {0},
     stage_id : StageIds \cup {"nonexistent"},
     confidence : { [num |-> FALSE, val |-> 0], [num |-> TRUE, val |-> 90] }]

bulkItem(a, stages) ==
    [contact_id |-> a.contact_id,
     stage_id |-> strOr(findStageId(stages, a.stage_id), firstStageId(stages)),
     confidence |-> numberOr(a.confidence, DefaultConfidence)]

bulkAssignContacts(resp, ids, stages) ==
    LET result == callNvidiaAPI(resp)
        parsed == parseContent(result.content)
        items == IF parsed.kind = "array" THEN parsed.obj ELSE <<>>
        mapThrows == \E i \in 1..Len(items) : items[i].isNull
    IN  IF result.threw THEN [threw |-> TRUE, assignments |-> <<>>]
        ELSE IF parsed.threw \/ parsed.kind = "null" \/ mapThrows
        THEN [threw |-> FALSE,
              assignments |->
                 [i \in 1..Len(ids) |->
                    [contact_id |-> ids[i],
                     stage_id |-> strOr(firstStageId(stages), ""),
                     confidence |-> FailedConfidence]]]
        ELSE [threw |-> FALSE,
              assignments |-> [i \in 1..Len(items) |-> bulkItem(items[i], stages)]]

\* the answers the bulk endpoint is run against
MainBulkResponses(ids) ==
    { [key |-> TRUE, ok |-> o, content |-> [wrap |-> "bare", kind |-> k, obj |-> <<>>]] :
        o \in BOOLEAN, k \in {"garbage"} }
    \cup { [key |-> TRUE, ok |-> TRUE,
            content |-> [wrap |-> "bare", kind |-> "array", obj |-> << a >>]] :
             a \in { x \in BulkItems({ ids[i] : i \in 1..Len(ids) }) :
                       /\ ~x.isNull
                       /\ x.contact_id # 0
                       /\ x.stage_id = "s3"
                       /\ ~x.confidence.num } }

(***************************************************************************)
(* POST /api/ai/analyze                                                    *)
(***************************************************************************)
UnanalyzedLimit == 50

\* .in('id', contactIds), or .is('ai_analysis', null).limit(50)
contactsToAnalyze(table, contactIds) ==
    LET wanted(i) == IF Len(contactIds) > 0
                     THEN \E k \in 1..Len(contactIds) : contactIds[k] = i
                     ELSE table[i].ai_analysis.summary = Undefined
        all == SelectSeq([i \in 1..Len(table) |-> i], wanted)
    IN  IF Len(contactIds) > 0 THEN all
        ELSE SubSeq(all, 1, Min(Len(all), UnanalyzedLimit))

\* the request is accepted and the contacts are read
AnalyzePOST(r) ==
    /\ req[r].kind = "idle"
    /\ started + 1 <= MaxEvents
    /\ started' = started + 1
    /\ \E pipelineId \in {"p1", "p2"}, contactIds \in {<<>>, <<1>>} :
         LET todo == contactsToAnalyze(contacts, contactIds) IN
         req' = [req EXCEPT ![r] =
                   IF Len(todo) = 0 THEN Idle
                   ELSE [Idle EXCEPT !.kind = "analyze", !.pc = "bulk_analyze",
                                     !.pipeline_id = pipelineId, !.todo = todo]]
    /\ UNCHANGED <<db, rest>>

\* one round of the loop over the contacts: read of the history,
\* analyzeContact inside its own try block, update of contacts
Bulk_Analyze(r) ==
    LET rq == req[r]
        id == Head(rq.todo)
        history == conversationHistory(messages, id)
        after(analyzed) ==
            [rq EXCEPT !.todo = Tail(rq.todo),
                       !.analyzed = analyzed,
                       !.pc = IF Len(rq.todo) > 1 THEN "bulk_analyze" ELSE "bulk_assign"]
    IN
    /\ rq.pc = "bulk_analyze"
    /\ \E resp \in MainAnalysisResponses :
         LET result == analyzeContact(resp) IN
         IF result.threw
         THEN /\ req' = [req EXCEPT ![r] = after(rq.analyzed)]
              /\ UNCHANGED contacts
         ELSE /\ contacts' = [contacts EXCEPT ![id].ai_analysis =
                                 storedAnalysis(result.analysis, 0)]
              /\ req' = [req EXCEPT ![r] = after(Append(rq.analyzed, id))]
    /\ UNCHANGED <<messages, assignments, logs, capi, started, rest>>

bulkLog(pipelineId) ==
    logRow(0, IF truthy(pipelineId) THEN "bulk_assign" ELSE "analyze_contact")

\* read of the stages, bulkAssignContacts; with nothing to save the log row
\* is written and the request answered
Bulk_Assign(r) ==
    LET rq == req[r]
        stages == sortStages(stagesOf(rq.pipeline_id))
    IN
    /\ rq.pc = "bulk_assign"
    /\ IF truthy(rq.pipeline_id) /\ Len(rq.analyzed) > 0 /\ Len(stages) > 0
       THEN \E resp \in MainBulkResponses(rq.analyzed) :
              LET bulkResult == bulkAssignContacts(resp, rq.analyzed, stages) IN
              IF bulkResult.threw
              THEN /\ req' = [req EXCEPT ![r] = Idle]
                   /\ UNCHANGED logs
              ELSE IF Len(bulkResult.assignments) = 0
              THEN /\ req' = [req EXCEPT ![r] = Idle]
                   /\ logs' = logs (+) SetToBag({bulkLog(rq.pipeline_id)})
              ELSE /\ req' = [req EXCEPT ![r] =
                                [rq EXCEPT !.pc = "bulk_upsert",
                                           !.out = bulkResult.assignments]]
                   /\ UNCHANGED logs
       ELSE /\ req' = [req EXCEPT ![r] = Idle]
            /\ logs' = logs (+) SetToBag({bulkLog(rq.pipeline_id)})
    /\ UNCHANGED <<contacts, messages, assignments, capi, started, rest>>

\* one round of the loop over the assignments: the upsert, which the
\* foreign keys reject for an id of no contact or of no stage; after the
\* last one the log row is written and the request answered
Bulk_Upsert(r) ==
    LET rq == req[r]
        assignment == Head(rq.out)
    IN
    /\ rq.pc = "bulk_upsert"
    /\ assignments' =
          IF contactExists(contacts, assignment.contact_id)
             /\ assignment.stage_id \in StageIds
          THEN upsertAssignment(assignments,
                  [contact_id |-> assignment.contact_id,
                   stage_id |-> assignment.stage_id,
                   pipeline_id |-> rq.pipeline_id])
          ELSE assignments
    /\ IF Len(rq.out) > 1
       THEN /\ req' = [req EXCEPT ![r] = [rq EXCEPT !.out = Tail(rq.out)]]
            /\ UNCHANGED logs
       ELSE /\ req' = [req EXCEPT ![r] = Idle]
            /\ logs' = logs (+) SetToBag({bulkLog(rq.pipeline_id)})
    /\ UNCHANGED <<contacts, messages, capi, started, rest>>

analyzeRoute(r) ==
    \/ AnalyzePOST(r)
    \/ Bulk_Analyze(r)
    \/ Bulk_Assign(r)
    \/ Bulk_Upsert(r)

(***************************************************************************)
(* POST /api/pipelines: with is_default the flag of all pipelines of the   *)
(* owner is cleared, then the pipeline is inserted. The id of the body     *)
(* stands for the id the insert generates and for the stages the body      *)
(* carries (those pipeline_stages holds for that id).                      *)
(***************************************************************************)
PipelineIds == {"p1", "p2", "p3"}

PipelineBodies == [is_default : BOOLEAN, id : PipelineIds]

\* ids of the pipelines stored or about to be inserted
usedPipelineIds ==
    { p.id : p \in pipelines }
    \cup { req[q].body.id : q \in { x \in Slots : req[x].kind = "pipelines" } }

PipelinesPOST(r) ==
    /\ req[r].kind = "idle"
    /\ started + 1 <= MaxEvents
    /\ started' = started + 1
    /\ \E body \in PipelineBodies :
         /\ body.id \notin usedPipelineIds
         /\ req' = [req EXCEPT ![r] =
                      [Idle EXCEPT !.kind = "pipelines",
                                   !.body = body,
                                   !.pc = IF body.is_default THEN "pl_unset"
                                          ELSE "pl_insert"]]
    /\ UNCHANGED <<db, ai, setup>>

\* .from('pipelines').update({ is_default: false }).eq('user_id', user.id)
Pl_Unset(r) ==
    /\ req[r].pc = "pl_unset"
    /\ pipelines' = { [p EXCEPT !.is_default = FALSE] : p \in pipelines }
    /\ req' = [req EXCEPT ![r].pc = "pl_insert"]
    /\ UNCHANGED <<db, started, ai, facebook_configs, revenue_tracking>>

\* .from('pipelines').insert({ ..., is_default: body.is_default || false });
\* on an error the request is answered 500
Pl_Insert(r) ==
    /\ req[r].pc = "pl_insert"
    /\ \E insertOk \in BOOLEAN :
         pipelines' = IF insertOk
                      THEN pipelines \cup { [id |-> req[r].body.id,
                                              is_default |-> req[r].body.is_default] }
                      ELSE pipelines
    /\ req' = [req EXCEPT ![r] = Idle]
    /\ UNCHANGED <<db, started, ai, facebook_configs, revenue_tracking>>

(***************************************************************************)
(* POST /api/test/webhook: a test lead is created and taken through the    *)
(* analysis and the assignment; each of the two has its own try block, and *)
(* no event is sent.                                                       *)
(***************************************************************************)
testLeadId == "test_lead_1"

testData ==
    [email |-> "test@example.com", phone |-> "+1234567890",
     firstName |-> "Test", lastName |-> "Lead", fullName |-> "Test Lead",
     customFields |-> [k \in {"source"} |-> "test_mode"]]

\* the request arrives; insert into contacts
TestPOST(r) ==
    /\ req[r].kind = "idle"
    /\ started + 1 <= MaxEvents
    /\ started' = started + 1
    /\ \E insertOk \in BOOLEAN :
         IF insertOk
         THEN /\ contacts' = Append(contacts, newContact(testLeadId, testData))
              /\ req' = [req EXCEPT ![r] =
                           [Idle EXCEPT !.kind = "test",
                                        !.pc = "test_analyze",
                                        !.contact = Len(contacts) + 1]]
         ELSE /\ req' = [req EXCEPT ![r] = Idle]
              /\ UNCHANGED contacts
    /\ UNCHANGED <<messages, assignments, logs, capi, rest>>

\* try { analyzeContact, update of contacts } catch (aiError) { ... }, then
\* the lookup of the default pipeline
Test_Analyze(r) ==
    LET rq == req[r] IN
    /\ rq.pc = "test_analyze"
    /\ \E resp \in MainAnalysisResponses :
         LET analysisResult == analyzeContact(resp) IN
         contacts' = IF analysisResult.threw THEN contacts
                     ELSE [contacts EXCEPT ![rq.contact].ai_analysis =
                              storedAnalysis(analysisResult.analysis, 0)]
    /\ req' = [req EXCEPT ![r] =
                 IF defaultPipeline # Undefined /\ stagesOf(defaultPipeline) # {}
                 THEN [rq EXCEPT !.pc = "test_assign"]
                 ELSE Idle]
    /\ UNCHANGED <<messages, assignments, logs, capi, started, rest>>

\* try { assignContactToStage, insert into contact_stage_assignments }
\* catch (pipelineError) { ... }
Test_Assign(r) ==
    LET rq == req[r]
        stages == sortStages(stagesOf(defaultPipeline))
    IN
    /\ rq.pc = "test_assign"
    /\ \E resp \in MainStageResponses :
         LET stageResult == assignContactToStage(resp, stages) IN
         assignments' =
            IF stageResult.threw THEN assignments
            ELSE insertAssignment(assignments,
                    [contact_id |-> rq.contact,
                     stage_id |-> stageResult.recommended_stage_id,
                     pipeline_id |-> defaultPipeline])
    /\ req' = [req EXCEPT ![r] = Idle]
    /\ UNCHANGED <<contacts, messages, logs, capi, started, rest>>

testWebhookRoute(r) ==
    \/ TestPOST(r)
    \/ Test_Analyze(r)
    \/ Test_Assign(r)

pipelinesRoute(r) ==
    \/ PipelinesPOST(r)
    \/ Pl_Unset(r)
    \/ Pl_Insert(r)

Next ==
    \E r \in Slots :
        \/ FacebookPOST(r, FacebookSignatures, LeadgenEvents \cup MessagingEvents)
        \/ processLeadgenEvent(r)
        \/ processMessagingEvent(r)
        \/ MessengerPOST(r, FacebookSignatures, HelloEvents)
        \/ Mgr_Save(r)
        \/ reanalyzeContactWithConversation(r)
        \/ analyzeRoute(r)

Spec == Init /\ [][Next]_vars

(***************************************************************************)
(* The completion client on its own: one call of assignContactToStage or   *)
(* analyzeContact, on any answer of the endpoint and any candidate list.   *)
(* The tables and requests stay as constructed.                            *)
(***************************************************************************)
InitAI ==
    /\ pipelines = ownerPipelines
    /\ facebook_configs = {ownerConfig}
    /\ revenue_tracking = <<>>
    /\ contacts = emptyTables.contacts
    /\ assignments = emptyTables.assignments
    /\ logs = emptyTables.logs
    /\ capi = emptyTables.capi
    /\ messages = <<>>
    /\ req = [r \in Slots |-> Idle]
    /\ started = 0
    /\ aiIn \in AICalls
    /\ aiOut = NoOut

AI_Assign ==
    /\ aiIn.fn = "assignContactToStage"
    /\ ~aiOut.done
    /\ aiOut' = [aiOut EXCEPT !.done = TRUE,
                              !.suggestion = assignContactToStage(aiIn.resp, aiIn.stages)]
    /\ UNCHANGED <<db, req, started, aiIn, setup>>

AI_Analyze ==
    /\ aiIn.fn = "analyzeContact"
    /\ ~aiOut.done
    /\ aiOut' = [aiOut EXCEPT !.done = TRUE,
                              !.analysis = analyzeContact(aiIn.resp)]
    /\ UNCHANGED <<db, req, started, aiIn, setup>>

NextAI == AI_Assign \/ AI_Analyze

SpecAI == InitAI /\ [][NextAI]_vars

idsOf(stages) == { stages[i].id : i \in 1..Len(stages) }

returnedAssign == aiOut.done /\ aiIn.fn = "assignContactToStage"
returnedAnalyze == aiOut.done /\ aiIn.fn = "analyzeContact"

(***************************************************************************)
(* C1: when the completion call returns content and the candidate list is  *)
(* not empty, the recommended_stage_id returned by assignContactToStage is *)
(* the id of a supplied stage, and it is the id of the first supplied      *)
(* stage whenever the model's stage_id names no supplied stage or the      *)
(* content does not parse.                                                 *)
(***************************************************************************)
C1_StageIdAmongCandidates ==
    (/\ returnedAssign
     /\ ~callNvidiaAPI(aiIn.resp).threw
     /\ Len(aiIn.stages) > 0)
    => /\ ~aiOut.suggestion.threw
       /\ aiOut.suggestion.recommended_stage_id \in idsOf(aiIn.stages)
       /\ (\/ aiIn.resp.content.obj.stage_id \notin idsOf(aiIn.stages)
           \/ aiIn.resp.content.kind # "object"
           \/ parseContent(aiIn.resp.content).threw)
          => aiOut.suggestion.recommended_stage_id = aiIn.stages[1].id

\* the model named a stage of another pipeline and the first of several
\* candidates was substituted
C1_Witness ==
    /\ returnedAssign
    /\ aiIn.resp.key /\ aiIn.resp.ok
    /\ aiIn.resp.content.kind = "object"
    /\ aiIn.resp.content.wrap = "fenced"
    /\ aiIn.resp.content.obj.stage_id = "t1"
    /\ Len(aiIn.stages) = 3
    /\ aiIn.stages[1].id = "s3"
    /\ aiOut.suggestion.recommended_stage_id = "s3"

(***************************************************************************)
(* C2: analyzeContact never raises; when the completion call fails, when   *)
(* the content is no parseable JSON and when required fields are absent    *)
(* or invalid it returns the fallback analysis.                            *)
(***************************************************************************)
C2_AnalyzeNeverRaises ==
    returnedAnalyze =>
        /\ ~aiOut.analysis.threw
        /\ (\/ callNvidiaAPI(aiIn.resp).threw
            \/ parseContent(aiIn.resp.content).threw
            \/ aiIn.resp.content.kind # "object"
            \/ aiIn.resp.content.obj.summary = Undefined
            \/ aiIn.resp.content.obj.intent = Undefined
            \/ aiIn.resp.content.obj.urgency \notin Urgencies
            \/ ~aiIn.resp.content.obj.tags.isArray)
           => aiOut.analysis.analysis = FallbackAnalysis

(***************************************************************************)
(* C3: assignContactToStage never propagates a failure; on an error of     *)
(* the completion call and on unparseable content it returns the first     *)
(* candidate stage, confidence 0.3 and the reasoning "Default assignment   *)
(* - analysis failed".                                                     *)
(***************************************************************************)
C3_AssignNeverPropagates ==
    returnedAssign =>
        /\ ~aiOut.suggestion.threw
        /\ (\/ callNvidiaAPI(aiIn.resp).threw
            \/ parseContent(aiIn.resp.content).threw)
           => /\ aiOut.suggestion.recommended_stage_id = firstStageId(aiIn.stages)
              /\ aiOut.suggestion.confidence = FailedConfidence
              /\ aiOut.suggestion.reasoning = "Default assignment - analysis failed"

(***************************************************************************)
(* Properties of the handlers, checked under Spec.                         *)
(***************************************************************************)
StartPcs == {"lead_create", "msg_save", "mgr_save"}
UpsertPcs == {"msg_upsert", "re_upsert"}
SelectPcs == {"msg_select", "re_select"}
CapiPcs == {"lead_capi", "msg_capi", "re_capi"}

\* the row of the default pipeline for a contact and a stage
pairRow(contact_id, stage_id) ==
    [contact_id |-> contact_id, stage_id |-> stage_id, pipeline_id |-> defaultPipeline]

\* the rows a contact has in the default pipeline
heldRows(table, contact_id) ==
    { x \in table : x.contact_id = contact_id /\ x.pipeline_id = defaultPipeline }

(***************************************************************************)
(* C4: once processLeadgenEvent has created the contact, its analysis      *)
(* step writes ai_analysis and lead_quality_score whatever the model       *)
(* endpoint answers (the fallback analysis gives this lead the score 55),  *)
(* and the handler goes on to the stage assignment.                        *)
(***************************************************************************)
C4_LeadReachesAnalyzed ==
    [][\A r \in Slots :
         (req[r].pc = "lead_analyze" /\ req'[r] # req[r]) =>
            LET stored == contacts'[req[r].contact] IN
            /\ stored.ai_analysis.summary # Undefined
            /\ stored.ai_analysis.summary = FallbackAnalysis.summary
               => stored.lead_quality_score = 55
            /\ req'[r].pc = "lead_assign"]_vars

(***************************************************************************)
(* C5: there is never more than one assignment row per (contact_id,        *)
(* pipeline_id), and every assignment write replaces the stage of the      *)
(* pair: after a handler has written the stage it selected, the pair's     *)
(* row carries that stage.                                                 *)
(***************************************************************************)
C5_OneAssignmentPerPair ==
    [][/\ \A x, y \in assignments' : sameKey(x, y) => x = y
       /\ \A r \in Slots :
            /\ (req[r].pc \in UpsertPcs /\ req'[r] # req[r])
               => heldRows(assignments', req[r].contact)
                     = { pairRow(req[r].contact, req[r].selected) }
            /\ (req[r].pc = "lead_assign" /\ req'[r].pc = "lead_capi")
               => heldRows(assignments', req'[r].contact)
                     = { pairRow(req'[r].contact, req'[r].selected) }
            /\ (/\ req[r].pc = "bulk_upsert" /\ req'[r] # req[r]
                /\ contactExists(contacts, Head(req[r].out).contact_id)
                /\ Head(req[r].out).stage_id \in StageIds)
               => { x \in assignments' :
                      /\ x.contact_id = Head(req[r].out).contact_id
                      /\ x.pipeline_id = req[r].pipeline_id }
                     = { [contact_id |-> Head(req[r].out).contact_id,
                          stage_id |-> Head(req[r].out).stage_id,
                          pipeline_id |-> req[r].pipeline_id] }]_vars

(***************************************************************************)
(* C6: when message handlers of one contact run concurrently and select    *)
(* s3 against a current assignment s1, each write of s3 leaves exactly     *)
(* one row for the pair, with stage s3, whatever the other handler has     *)
(* read or written in between; so does the last of them.                   *)
(***************************************************************************)
C6_ConcurrentMoveOneRow ==
    [][\A r \in Slots :
         (req[r].pc \in UpsertPcs /\ req[r].selected = "s3" /\ req'[r] # req[r])
         => heldRows(assignments', req[r].contact)
               = { pairRow(req[r].contact, "s3") }]_vars

\* one handler has written s3 and is about to export, the other one, which
\* read s1 as well, is still about to write s3
C6_Witness ==
    \E r1, r2 \in Slots :
        /\ r1 # r2
        /\ req[r1].pc \in {"msg_capi", "re_capi"}
        /\ req[r2].pc \in UpsertPcs
        /\ req[r1].contact = req[r2].contact
        /\ req[r1].selected = "s3" /\ req[r2].selected = "s3"
        /\ heldRows(assignments, req[r1].contact) = { pairRow(req[r1].contact, "s3") }
        /\ \A x \in assignments : x.pipeline_id = defaultPipeline

(***************************************************************************)
(* C7: a message handler that selects the stage the contact already holds  *)
(* in the pipeline goes on to no assignment write and to no export.        *)
(***************************************************************************)
C7_NoWriteWhenStageHeld ==
    [][\A r \in Slots :
         (req[r].pc \in SelectPcs /\ req'[r].pc \in UpsertPcs)
         => pairRow(req[r].contact, req'[r].selected) \notin assignments]_vars

(***************************************************************************)
(* C8: no two contacts carry the same facebook_lead_id and no two          *)
(* messages the same facebook_message_id, however often an event is        *)
(* delivered.                                                              *)
(***************************************************************************)
C8_NoDuplicateRows ==
    /\ \A i, j \in 1..Len(contacts) :
          contacts[i].facebook_lead_id = contacts[j].facebook_lead_id => i = j
    /\ \A i, j \in 1..Len(messages) :
          messages[i].facebook_message_id = messages[j].facebook_message_id => i = j

(***************************************************************************)
(* C9: a handler gets to sendConversionEvent for a contact and a stage     *)
(* only with the assignment of the contact to that stage persisted by the  *)
(* write it has just made.                                                 *)
(***************************************************************************)
C9_ExportOnlyAfterPersisted ==
    [][\A r \in Slots :
         (req[r].pc \notin CapiPcs /\ req'[r].pc \in CapiPcs)
         => pairRow(req'[r].contact, req'[r].selected) \in assignments']_vars

(***************************************************************************)
(* C10: when sendConversionEvent throws, the assignments stay as they      *)
(* are and the handler returns normally: the delivery goes on with its     *)
(* next event, or the request is answered if there is none.                *)
(***************************************************************************)
C10_ExportFailureSwallowed ==
    [][\A r \in Slots :
         (/\ req[r].pc \in CapiPcs
          /\ req'[r] # req[r]
          /\ \E c \in BagToSet(capi') :
                ~c.ok /\ CopiesIn(c, capi') > CopiesIn(c, capi))
         => /\ assignments' = assignments
            /\ IF Len(req[r].queue) > 0
               THEN /\ req'[r].kind = req[r].kind
                    /\ req'[r].event = Head(req[r].queue)
                    /\ req'[r].queue = Tail(req[r].queue)
                    /\ req'[r].pc \in StartPcs
               ELSE req'[r] = Idle]_vars

\* an export has failed, its assignment is in place, and the delivery is at
\* the start of its last event
C10_Witness ==
    \E r \in Slots, c \in BagToSet(capi) :
        /\ ~c.ok
        /\ pairRow(c.external_id, c.pipeline_stage) \in assignments
        /\ req[r].pc \in StartPcs
        /\ req[r].queue = <<>>
        /\ started = 2
        /\ \A q \in Slots \ {r} : req[q] = Idle
        /\ Len(contacts) = 1

(***************************************************************************)
(* The owner sets up pipelines while leads arrive: no pipeline and no      *)
(* contact at first; pipelines are created by POST /api/pipelines, leads   *)
(* come in by the Facebook webhook and messages of strangers by the        *)
(* Messenger webhook; the sender of a delivery may use any signature.      *)
(***************************************************************************)
InitSetup ==
    /\ pipelines = {}
    /\ facebook_configs = {ownerConfig}
    /\ revenue_tracking = <<>>
    /\ contacts = emptyTables.contacts
    /\ assignments = emptyTables.assignments
    /\ logs = emptyTables.logs
    /\ capi = emptyTables.capi
    /\ messages = <<>>
    /\ req = [r \in Slots |-> Idle]
    /\ started = 0
    /\ aiIn = NoCall
    /\ aiOut = NoOut

NextSetup ==
    \E r \in Slots :
        \/ pipelinesRoute(r)
        \/ testWebhookRoute(r)
        \/ FacebookPOST(r, Signatures, LeadgenEvents)
        \/ processLeadgenEvent(r)
        \/ MessengerPOST(r, Signatures, StrangerEvents)
        \/ Mgr_Save(r)

SpecSetup == InitSetup /\ [][NextSetup]_vars

(***************************************************************************)
(* C11: whenever the owner has pipelines, exactly one of them has          *)
(* is_default = true.                                                      *)
(***************************************************************************)
C11_ExactlyOneDefault ==
    pipelines # {} => Cardinality({ p \in pipelines : p.is_default }) = 1

(***************************************************************************)
(* C12: on every inbound message for an assigned webhook contact whose     *)
(* owner has a default pipeline with stages, the handler re-runs analysis  *)
(* and then re-runs stage selection: the step that reads the history and   *)
(* analyses is followed by the selection step, in the Facebook handler and *)
(* in the conversation-aware re-analysis.                                  *)
(***************************************************************************)
isAssigned(contact_id) == \E a \in assignments : a.contact_id = contact_id

C12_EveryMessageReselects ==
    [][\A r \in Slots :
          ( /\ req[r].pc \in {"msg_analyze", "re_analyze"}
            /\ req'[r] # req[r]
            /\ isAssigned(req[r].contact)
            /\ contacts[req[r].contact].source = "webhook"
            /\ defaultPipeline # Undefined
            /\ stagesOf(defaultPipeline) # {} )
          => req'[r].pc = (IF req[r].pc = "msg_analyze" THEN "msg_select"
                           ELSE "re_select")]_vars

(***************************************************************************)
(* A conversation that is already long: the lead L1 was processed and has  *)
(* up to MaxStored earlier messages when the deliveries of the Facebook    *)
(* webhook arrive.                                                         *)
(***************************************************************************)
MaxStored == 20     \* messages stored for the contact at the start

earlierMessage ==
    [contact_id |-> 1, direction |-> "inbound", facebook_message_id |-> "m0"]

InitHistory ==
    /\ pipelines = ownerPipelines
    /\ facebook_configs = {ownerConfig}
    /\ revenue_tracking = <<>>
    /\ contacts = processedLead.contacts
    /\ assignments = processedLead.assignments
    /\ logs = processedLead.logs
    /\ capi = processedLead.capi
    /\ \E stored \in 0..MaxStored : messages = [i \in 1..stored |-> earlierMessage]
    /\ req = [r \in Slots |-> Idle]
    /\ started = 0
    /\ aiIn = NoCall
    /\ aiOut = NoOut

NextHistory ==
    \E r \in Slots :
        \/ FacebookPOST(r, FacebookSignatures, MessagingEvents)
        \/ processMessagingEvent(r)

SpecHistory == InitHistory /\ [][NextHistory]_vars

inSeq(row, seq) == \E i \in 1..Len(seq) : seq[i] = row

(***************************************************************************)
(* C13: the history read for the re-analysis contains the inbound message  *)
(* that triggered it, whatever the number of stored messages: once the     *)
(* message is saved, the history the analysis step reads contains its row, *)
(* and so do the most recent 10 messages the selection step is given.      *)
(***************************************************************************)
C13_HistoryHasTrigger ==
    \A r \in Slots :
        LET rq == req[r]
            trigger == messageRow(rq.contact, rq.event)
        IN  /\ (rq.pc = "msg_analyze" /\ inSeq(trigger, messages))
                  => inSeq(trigger, conversationHistory(messages, rq.contact))
            /\ rq.pc = "msg_select"
                  => \/ inSeq(trigger, selectorMessages(rq.history))
                     \/ ~inSeq(trigger, messages)

(***************************************************************************)
(* C14: in every reachable state the urgency stored in a contact's         *)
(* ai_analysis is one of low, medium, high (a contact not analysed yet has *)
(* no ai_analysis).                                                        *)
(***************************************************************************)
C14_StoredUrgencyInEnum ==
    \A i \in 1..Len(contacts) :
        contacts[i].ai_analysis.summary # Undefined
            => contacts[i].ai_analysis.urgency \in Urgencies

(***************************************************************************)
(* C15: no handler writes a stage assignment for a contact whose           *)
(* ai_analysis has not been written: every row of                          *)
(* contact_stage_assignments belongs to a contact that has an analysis.    *)
(***************************************************************************)
C15_AssignedOnlyAfterAnalyzed ==
    \A a \in assignments :
        contacts[a.contact_id].ai_analysis.summary # Undefined

(***************************************************************************)
(* The handlers of both webhooks for an owner whose Facebook configuration *)
(* may lack the dataset id, and whose contacts table may hold a contact    *)
(* that was imported rather than created by the webhook: the sender L1 is  *)
(* the processed lead or the imported contact.                             *)
(***************************************************************************)
noDatasetConfig == [ownerConfig EXCEPT !.dataset_id = Undefined]

\* a row of contacts with source 'import' that carries the Facebook ids of
\* the page and of the sender L1
importedContact ==
    [newContact("L1", testData) EXCEPT !.source = "import"]

importedTables == [emptyTables EXCEPT !.contacts = <<importedContact>>]

InitConfig ==
    /\ pipelines = ownerPipelines
    /\ facebook_configs \in {{ownerConfig}, {noDatasetConfig}}
    /\ revenue_tracking = <<>>
    /\ \E tables \in {processedLead, importedTables} :
         /\ contacts = tables.contacts
         /\ assignments = tables.assignments
         /\ logs = tables.logs
         /\ capi = IF truthy(fbConfig.dataset_id) THEN tables.capi ELSE EmptyBag
    /\ messages = <<>>
    /\ req = [r \in Slots |-> Idle]
    /\ started = 0
    /\ aiIn = NoCall
    /\ aiOut = NoOut

NextConfig ==
    \E r \in Slots :
        \/ FacebookPOST(r, FacebookSignatures, LeadgenEvents \cup MessagingEvents)
        \/ processLeadgenEvent(r)
        \/ processMessagingEvent(r)
        \/ MessengerPOST(r, FacebookSignatures, HelloEvents)
        \/ Mgr_Save(r)
        \/ reanalyzeContactWithConversation(r)

SpecConfig == InitConfig /\ [][NextConfig]_vars

\* the stage has a non-empty capi_event_name and the configuration of the
\* page has a dataset id
exportConfigured(stage_id) ==
    /\ \E s \in pipeline_stages :
          s.id = stage_id /\ s.capi_event_name \notin {Undefined, ""}
    /\ \E c \in facebook_configs :
          c.page_id = "page1" /\ c.dataset_id \notin {Undefined, ""}

capiPcOf(pc) ==
    CASE pc = "lead_assign" -> "lead_capi"
      [] pc = "msg_upsert" -> "msg_capi"
      [] pc = "re_upsert" -> "re_capi"

(***************************************************************************)
(* C16: after a stage assignment is made by the lead handler or by the     *)
(* re-analysis, the export is invoked exactly once if the stage has a      *)
(* non-empty capi_event_name and the configuration has a dataset id, and   *)
(* not at all otherwise: the step that writes the assignment goes on to    *)
(* the export step exactly in that case, the export step makes one call    *)
(* and is left, and no other step makes a call.                            *)
(***************************************************************************)
C16_ExportOnceIffConfigured ==
    [][/\ \A r \in Slots :
            /\ (req[r].pc = "lead_assign" /\ req'[r] # req[r]
                   /\ assignments' # assignments)
                  => \A a \in assignments' \ assignments :
                        (req'[r].pc = "lead_capi") <=> exportConfigured(a.stage_id)
            /\ (req[r].pc \in UpsertPcs /\ req'[r] # req[r])
                  => ((req'[r].pc = capiPcOf(req[r].pc))
                         <=> exportConfigured(req[r].selected))
            /\ (req[r].pc \in CapiPcs /\ req'[r] # req[r])
                  => /\ BagCardinality(capi') = BagCardinality(capi) + 1
                     /\ req'[r].pc \notin CapiPcs
       /\ (\A r \in Slots : req[r].pc \in CapiPcs => req'[r] = req[r])
             => capi' = capi]_vars

\* the conversation moved L1 to s3 and the Purchase event was sent once for
\* it, to the dataset of the configuration
C16_Witness ==
    /\ pairRow(1, "s3") \in assignments
    /\ \E call \in BagToSet(capi) :
          /\ call.external_id = 1
          /\ call.event_name = "Purchase"
          /\ call.dataset_id = ownerConfig.dataset_id
          /\ CopiesIn(call, capi) = 1
    /\ \A r \in Slots : req[r] = Idle

\* no pipeline of the owner is flagged is_default
noDefault == \A p \in pipelines : ~p.is_default

\* the one pipeline flagged is_default has no row in pipeline_stages
defaultWithoutStages ==
    \E p \in pipelines :
        /\ p.is_default
        /\ \A q \in pipelines : q.is_default => q = p
        /\ \A s \in pipeline_stages : s.pipeline_id # p.id

(***************************************************************************)
(* C17: when the owner has no default pipeline, or the default pipeline    *)
(* has no stages, the lead handler that has analysed the contact ends      *)
(* there: the contact keeps its analysis, no assignment and no             *)
(* assign_stage log is written, no export is made, and the handler         *)
(* returns to the loop of the delivery without entering the selection.     *)
(***************************************************************************)
C17_NoPipelineStaysAnalyzed ==
    [][\A r \in Slots :
          ( /\ req[r].pc = "lead_analyze"
            /\ req'[r] # req[r]
            /\ contacts'[req[r].contact].ai_analysis.summary # Undefined
            /\ (noDefault \/ defaultWithoutStages) )
          => /\ req'[r] = endEvent(req[r])
             /\ assignments' = assignments
             /\ capi' = capi
             /\ logs' = logs (+) SetToBag({logRow(req[r].contact, "analyze_contact")})
             /\ ~isAssigned(req[r].contact)']_vars

\* the lead L1 was analysed and the delivery is over, without assignment,
\* the owner having no pipeline at all, or p3 (no stages) as the default
C17_Witness ==
    /\ \/ pipelines = {}
       \/ (\E p \in pipelines : p.id = "p3" /\ p.is_default) /\ defaultWithoutStages
    /\ \E i \in 1..Len(contacts) :
          /\ contacts[i].facebook_lead_id = "L1"
          /\ contacts[i].ai_analysis.summary # Undefined
          /\ ~isAssigned(i)
    /\ \A r \in Slots : req[r] = Idle

\* the contact the handler of the slot's event finds for the sender (0: none)
foundContact(rq) ==
    IF rq.pc = "mgr_save" THEN existingContact(contacts, rq.event.id)
    ELSE matchingContact(contacts, rq.event.id)

(***************************************************************************)
(* C18: a message event whose matched contact has a source other than      *)
(* webhook changes nothing: the step that finds the contact stores no      *)
(* message, leaves contacts, assignments, logs and exports as they are,    *)
(* and ends the handling of the event.                                     *)
(***************************************************************************)
C18_NonWebhookContactIgnored ==
    [][\A r \in Slots :
          ( /\ req[r].pc \in {"msg_save", "mgr_save"}
            /\ req'[r] # req[r]
            /\ foundContact(req[r]) # 0
            /\ contacts[foundContact(req[r])].source # "webhook" )
          => /\ UNCHANGED db
             /\ req'[r] = endEvent(req[r])]_vars

\* a delivery of two messages of L1, who is the imported contact: the first
\* was ignored and the second is about to be looked at, nothing being stored
C18_Witness ==
    \E r \in Slots :
        /\ req[r].pc \in {"msg_save", "mgr_save"}
        /\ req[r].queue = <<>>
        /\ started = 2
        /\ \A q \in Slots \ {r} : req[q] = Idle
        /\ foundContact(req[r]) # 0
        /\ contacts[foundContact(req[r])].source = "import"
        /\ messages = <<>>
        /\ assignments = {}

\* "sha256=" followed by the HMAC-SHA256 of the raw body under the app secret
expectedSignature == "sha256=" \o HmacSHA256(RawBody, AppSecret)

(***************************************************************************)
(* C19: a webhook POST whose x-hub-signature-256 header is not the         *)
(* expected signature is answered with 401 and nothing of its body is      *)
(* processed: the request ends in the step that receives it, no table and  *)
(* no counter of accepted events changes, and every delivery whose events  *)
(* are being handled carries the expected signature.                       *)
(***************************************************************************)
C19_BadSignatureRejected ==
    [][\A r \in Slots :
          /\ ( /\ req[r].kind = "idle"
               /\ req'[r] # req[r]
               /\ req'[r].signature \notin {Undefined, expectedSignature} )
             => /\ req'[r].status = Unauthorized
                /\ req'[r].kind = "idle"
                /\ req'[r].pc = "idle"
                /\ req'[r].queue = <<>>
                /\ UNCHANGED <<db, started, ai, setup>>
          /\ req'[r].kind \in {"facebook", "messenger"}
                => req'[r].signature = expectedSignature]_vars

\* a request without the header and one signed with a wrong secret were
\* both answered 401; nothing was accepted or stored
C19_Witness ==
    /\ \E r, q \in Slots :
          /\ req[r] = invalidSignature("")
          /\ req[q] = invalidSignature("sha256=" \o HmacSHA256(RawBody, "guess"))
    /\ started = 0
    /\ contacts = <<>>
    /\ messages = <<>>

(***************************************************************************)
(* C20: a failure while one event of a delivery is processed does not      *)
(* abort the delivery: as long as events of the body are still to come,    *)
(* every step of the request either stays with its event or goes on to     *)
(* the next event of the body, whose handler then starts.                  *)
(***************************************************************************)
C20_DeliveryGoesOn ==
    [][\A r \in Slots :
          ( /\ req[r].kind \in {"facebook", "messenger"}
            /\ req'[r] # req[r]
            /\ req[r].queue # <<>> )
          => /\ req'[r].kind = req[r].kind
             /\ \/ /\ req'[r].event = req[r].event
                   /\ req'[r].queue = req[r].queue
                \/ /\ req'[r].event = Head(req[r].queue)
                   /\ req'[r].queue = Tail(req[r].queue)
                   /\ req'[r].pc = startPc(req[r].kind, Head(req[r].queue))]_vars

\* one delivery of two events: the lead of the first was created but its
\* analysis failed, and the handler of the second event is starting
C20_Witness ==
    \E r \in Slots :
        /\ req[r].kind = "facebook"
        /\ req[r].pc \in StartPcs
        /\ req[r].queue = <<>>
        /\ started = 2
        /\ \A q \in Slots \ {r} : req[q] = Idle
        /\ Len(contacts) = 1
        /\ contacts[1].ai_analysis.summary = Undefined
        /\ messages = <<>>

(***************************************************************************)
(* C22: the confidence returned by assignContactToStage lies in [0,1]      *)
(* (0..100 in hundredths) on every path, whatever the model states.        *)
(***************************************************************************)
C22_ConfidenceInUnitInterval ==
    (returnedAssign /\ ~aiOut.suggestion.threw)
    => aiOut.suggestion.confidence \in 0..100

(***************************************************************************)
(* C23: when the call succeeds with parseable output whose stage id is not *)
(* among the candidates, assignContactToStage returns the first            *)
(* candidate's id together with the confidence the model stated, for every *)
(* stated number including 0.                                              *)
(***************************************************************************)
C23_InvalidIdKeepsStatedConfidence ==
    ( /\ returnedAssign
      /\ ~callNvidiaAPI(aiIn.resp).threw
      /\ ~parseContent(aiIn.resp.content).threw
      /\ aiIn.resp.content.kind = "object"
      /\ aiIn.resp.content.obj.stage_id \notin idsOf(aiIn.stages)
      /\ aiIn.resp.content.obj.confidence.num )
    => /\ aiOut.suggestion.recommended_stage_id = aiIn.stages[1].id
       /\ aiOut.suggestion.confidence = aiIn.resp.content.obj.confidence.val

(***************************************************************************)
(* bulkAssignContacts on its own: one call for the contacts 1..n, any      *)
(* candidate list, and an answer that is an array of up to MaxItems        *)
(* elements (null, or a pair naming a contact of the input or another id   *)
(* and a stage), text that does not parse, or a failed request.            *)
(***************************************************************************)
MaxItems == 2       \* contacts of one bulk call, elements of its answer

BulkElements ==
    { x \in BulkItems(1..MaxItems) :
        /\ ~x.confidence.num
        /\ x.stage_id \in {"s1", "nonexistent"}
        /\ (x.isNull => x.contact_id = 0 /\ x.stage_id = "nonexistent") }

BulkResponses ==
    { [key |-> TRUE, ok |-> TRUE,
       content |-> [wrap |-> "bare", kind |-> "array", obj |-> b]] :
         b \in Batches(BulkElements, MaxItems) }
    \cup { [key |-> TRUE, ok |-> o,
            content |-> [wrap |-> "bare", kind |-> "garbage", obj |-> <<>>]] :
             o \in BOOLEAN }

BulkCalls ==
    { [fn |-> "bulkAssignContacts", resp |-> r, stages |-> l,
       ids |-> [i \in 1..n |-> i]] :
        r \in BulkResponses, l \in CandidateLists, n \in 1..MaxItems }

InitBulk ==
    /\ pipelines = ownerPipelines
    /\ facebook_configs = {ownerConfig}
    /\ revenue_tracking = <<>>
    /\ contacts = emptyTables.contacts
    /\ assignments = emptyTables.assignments
    /\ logs = emptyTables.logs
    /\ capi = emptyTables.capi
    /\ messages = <<>>
    /\ req = [r \in Slots |-> Idle]
    /\ started = 0
    /\ aiIn \in BulkCalls
    /\ aiOut = NoOut

AI_Bulk ==
    /\ aiIn.fn = "bulkAssignContacts"
    /\ ~aiOut.done
    /\ aiOut' = [aiOut EXCEPT !.done = TRUE,
                              !.bulk = bulkAssignContacts(aiIn.resp, aiIn.ids,
                                                          aiIn.stages)]
    /\ UNCHANGED <<db, req, started, aiIn, setup>>

NextBulk == AI_Bulk

SpecBulk == InitBulk /\ [][NextBulk]_vars

returnedBulk == aiOut.done /\ aiIn.fn = "bulkAssignContacts" /\ ~aiOut.bulk.threw

(***************************************************************************)
(* C21: bulkAssignContacts returns, for every contact of its input list,   *)
(* one assignment whose stage_id is an id of the supplied stage list, and  *)
(* no returned pair names a contact outside the input.                     *)
(***************************************************************************)
C21_BulkCoversInput ==
    returnedBulk
    => LET out == aiOut.bulk.assignments
           inputIds == { aiIn.ids[i] : i \in 1..Len(aiIn.ids) }
       IN  /\ \A c \in inputIds :
                 /\ Cardinality({ k \in 1..Len(out) : out[k].contact_id = c }) = 1
                 /\ \A k \in 1..Len(out) :
                       out[k].contact_id = c => out[k].stage_id \in idsOf(aiIn.stages)
           /\ \A k \in 1..Len(out) : out[k].contact_id \in inputIds

(***************************************************************************)
(* calculateLeadQuality of the quality-update endpoint: its own urgency    *)
(* weights and, when the contact has an analysis, points for the intent.   *)
(* A contact without ai_analysis has urgency and intent Undefined.         *)
(***************************************************************************)
QualityHighPoints == 20
QualityMediumPoints == 10
QualityLowPoints == 5
ClearIntentPoints == 20
IntentPoints == 10
ClearIntentLength == 20

calculateLeadQuality(contact) ==
    LET completeness ==
            (IF truthy(contact.email) THEN FieldPoints ELSE 0)
          + (IF truthy(contact.phone) THEN FieldPoints ELSE 0)
          + (IF truthy(contact.full_name) THEN FieldPoints ELSE 0)
        urgencyPoints ==
            CASE contact.ai_analysis.urgency = "high" -> QualityHighPoints
              [] contact.ai_analysis.urgency = "medium" -> QualityMediumPoints
              [] contact.ai_analysis.urgency = "low" -> QualityLowPoints
              [] OTHER -> 0
        intentPoints ==
            IF truthy(contact.ai_analysis.intent)
               /\ Len(contact.ai_analysis.intent) > ClearIntentLength
            THEN ClearIntentPoints
            ELSE IF truthy(contact.ai_analysis.intent) THEN IntentPoints
            ELSE 0
        customFieldCount == Cardinality(DOMAIN contact.custom_fields)
    IN  Min(ScoreCap,
            completeness + urgencyPoints + intentPoints
              + Min(CustomFieldCap, customFieldCount * FieldPoints))

(***************************************************************************)
(* The two scorers on their own: a contact with any combination of         *)
(* identity fields, urgency, intent and up to MaxFields custom fields is   *)
(* scored, and scored again after a further identity field is filled in    *)
(* or a further custom field is added.                                     *)
(***************************************************************************)
MaxFields == 4      \* custom-field keys of a scored contact

IdentityFields == {"email", "phone", "full_name"}

ScoredContacts ==
    [email : {"a@b.com", "", Undefined},
     phone : {"555-1212", Undefined},
     full_name : {"Jo", Undefined},
     ai_analysis : [urgency : Urgencies \cup {"urgent", Undefined},
                    intent : {"buy", "wants to place a large order", "", Undefined}],
     custom_fields : { [i \in 1..n |-> "v"] : n \in 0..MaxFields }]

NoScores == [done |-> FALSE, inline |-> 0, quality |-> 0]

scoresOf(contact) ==
    [done |-> TRUE,
     inline |-> leadQualityScore(contact, contact.ai_analysis.urgency,
                                 contact.custom_fields),
     quality |-> calculateLeadQuality(contact)]

InitScore ==
    /\ pipelines = ownerPipelines
    /\ facebook_configs = {ownerConfig}
    /\ revenue_tracking = <<>>
    /\ contacts = emptyTables.contacts
    /\ assignments = emptyTables.assignments
    /\ logs = emptyTables.logs
    /\ capi = emptyTables.capi
    /\ messages = <<>>
    /\ req = [r \in Slots |-> Idle]
    /\ started = 0
    /\ \E c \in ScoredContacts : aiIn = [fn |-> "score", contact |-> c]
    /\ aiOut = NoScores

\* both scorers are applied to the contact
Score ==
    /\ aiIn.fn = "score"
    /\ ~aiOut.done
    /\ aiOut' = scoresOf(aiIn.contact)
    /\ UNCHANGED <<db, req, started, aiIn, setup>>

\* an identity field that was empty is filled in, and the contact is scored
\* again
PopulateField ==
    /\ aiIn.fn = "score"
    /\ aiOut.done
    /\ \E f \in IdentityFields :
         /\ ~truthy(aiIn.contact[f])
         /\ aiIn' = [aiIn EXCEPT !.contact[f] = "filled"]
    /\ aiOut' = scoresOf(aiIn'.contact)
    /\ UNCHANGED <<db, req, started, setup>>

\* a further custom field is added, and the contact is scored again
AddCustomField ==
    /\ aiIn.fn = "score"
    /\ aiOut.done
    /\ Len(aiIn.contact.custom_fields) < MaxFields
    /\ aiIn' = [aiIn EXCEPT !.contact.custom_fields = Append(@, "v")]
    /\ aiOut' = scoresOf(aiIn'.contact)
    /\ UNCHANGED <<db, req, started, setup>>

NextScore == Score \/ PopulateField \/ AddCustomField

SpecScore == InitScore /\ [][NextScore]_vars

(***************************************************************************)
(* C24: for every contact the lead-quality score is an integer in 0..100, *)
(* and with urgency held fixed it never decreases when a further identity  *)
(* field becomes populated or a further custom-field key is added, for the *)
(* inline scorer of the webhook handler and for calculateLeadQuality.      *)
(***************************************************************************)
C24_ScoreBoundedMonotone ==
    [][/\ aiOut'.done
          => /\ aiOut'.inline \in 0..ScoreCap
             /\ aiOut'.quality \in 0..ScoreCap
       /\ (aiOut.done /\ aiOut'.done /\ aiIn' # aiIn)
          => /\ aiIn'.contact.ai_analysis = aiIn.contact.ai_analysis
             /\ aiOut'.inline >= aiOut.inline
             /\ aiOut'.quality >= aiOut.quality]_vars

\* a contact with all identity fields and four custom fields, scored after
\* the last of them was added: the custom-field cap and the total are reached
C24_Witness ==
    /\ aiOut.done
    /\ \A f \in IdentityFields : truthy(aiIn.contact[f])
    /\ aiIn.contact.email = "filled"
    /\ Len(aiIn.contact.custom_fields) = 4
    /\ aiIn.contact.ai_analysis.urgency = "high"
    /\ aiOut.inline = ScoreCap

\* 10 per present identity field, the urgency points, 10 per custom-field
\* key capped at 30, the sum capped at 100
statedScore(contact, high, medium, low) ==
    LET present == Cardinality({ f \in IdentityFields :
                                   contact[f] \notin {Undefined, ""} })
        urgency == contact.ai_analysis.urgency
        points == IF urgency = "high" THEN high
                  ELSE IF urgency = "medium" THEN medium
                  ELSE IF urgency = "low" THEN low
                  ELSE 0
        keys == Cardinality(DOMAIN contact.custom_fields)
        sum == 10 * present + points + (IF 10 * keys > 30 THEN 30 ELSE 10 * keys)
    IN  IF sum > 100 THEN 100 ELSE sum

(***************************************************************************)
(* C25: the score is 10 per present field among email, phone and full      *)
(* name, plus the urgency contribution (40, 25, 10 in the webhook handler; *)
(* 20, 10, 5 in calculateLeadQuality), plus 10 per custom-field key capped *)
(* at 30, clamped to 0..100; nothing else contributes.                     *)
(***************************************************************************)
C25_ScoreIsStatedSum ==
    aiOut.done
    => /\ aiOut.inline = statedScore(aiIn.contact, 40, 25, 10)
       /\ aiOut.quality = statedScore(aiIn.contact, 20, 10, 5)

(***************************************************************************)
(* C26: every model invocation made while an event is processed is         *)
(* followed by the insertion of an ai_analysis_logs record, whether or not *)
(* it leads to a stage change: when the handling of an event ends with the *)
(* step that analysed the contact and stored the analysis, that step has   *)
(* inserted a log record.                                                  *)
(***************************************************************************)
C26_EveryInvocationLogged ==
    [][\A r \in Slots :
          ( /\ req[r].pc \in {"lead_analyze", "msg_analyze", "re_analyze"}
            /\ req'[r] = endEvent(req[r])
            /\ contacts' # contacts )
          => BagCardinality(logs') > BagCardinality(logs)]_vars

(***************************************************************************)
(* hashUserData and the user_data of the CAPI envelope. A string is the    *)
(* sequence of its characters. The SHA-256 digest is kept as its preimage  *)
(* under the tag sha256: two digests are equal exactly when the hashed     *)
(* strings are. An optional field is absent or holds a string.             *)
(***************************************************************************)
\* value.trim()
RECURSIVE trim(_)
trim(value) ==
    IF Len(value) = 0 THEN value
    ELSE IF Head(value) = " " THEN trim(Tail(value))
    ELSE IF value[Len(value)] = " " THEN trim(SubSeq(value, 1, Len(value) - 1))
    ELSE value

\* value.replace(/\D/g, '')
digitsOnly(value) == SelectSeq(value, LAMBDA c : c \in {"1", "2"})

SHA256(value) == [sha256 |-> value]

\* the digest of the value as it is
hashUserData_raw(value) == SHA256(value)

\* CryptoJS.SHA256(value.toLowerCase().trim()).toString()
hashUserData(value) == SHA256(trim(lowerCased(value)))

Absent == [present |-> FALSE, value |-> <<>>]

\* if (userData.x) event.user_data.y = [hash]: an empty string is left out
hashedEntry(field, value) ==
    IF field.present /\ Len(field.value) > 0
    THEN [present |-> TRUE, value |-> hashUserData(value)]
    ELSE Absent

\* the em, ph, fn and ln entries of event.user_data
capiUserData(userData) ==
    [em |-> hashedEntry(userData.email, userData.email.value),
     ph |-> hashedEntry(userData.phone, digitsOnly(userData.phone.value)),
     fn |-> hashedEntry(userData.firstName, userData.firstName.value),
     ln |-> hashedEntry(userData.lastName, userData.lastName.value)]

(***************************************************************************)
(* The envelope on its own: user data whose email and first name are any   *)
(* strings of up to MaxChars letters and blanks, whose phone is any string *)
(* of up to MaxChars digits and dashes, each possibly absent.              *)
(***************************************************************************)
MaxChars == 2       \* characters of a user-data string

RECURSIVE Strings(_, _)
Strings(chars, n) ==
    IF n = 0 THEN { <<>> }
    ELSE LET shorter == Strings(chars, n - 1)
         IN  shorter \cup { Append(x, c) : x \in { y \in shorter : Len(y) = n - 1 },
                                            c \in chars }

Optional(values) == { [present |-> TRUE, value |-> v] : v \in values } \cup { Absent }

UserData ==
    [email : Optional(Strings({"a", "A", " "}, MaxChars)),
     firstName : Optional(Strings({"a", "A", " "}, MaxChars)),
     phone : Optional(Strings({"1", "-"}, MaxChars)),
     lastName : Optional({ <<"A", "a">> })]

NoUserData == [done |-> FALSE, user_data |-> capiUserData([email |-> Absent,
                  firstName |-> Absent, phone |-> Absent, lastName |-> Absent])]

InitCapi ==
    /\ pipelines = ownerPipelines
    /\ facebook_configs = {ownerConfig}
    /\ revenue_tracking = <<>>
    /\ contacts = emptyTables.contacts
    /\ assignments = emptyTables.assignments
    /\ logs = emptyTables.logs
    /\ capi = emptyTables.capi
    /\ messages = <<>>
    /\ req = [r \in Slots |-> Idle]
    /\ started = 0
    /\ \E u \in UserData : aiIn = [fn |-> "sendConversionEvent", userData |-> u]
    /\ aiOut = NoUserData

\* the envelope is built
BuildEvent ==
    /\ aiIn.fn = "sendConversionEvent"
    /\ ~aiOut.done
    /\ aiOut' = [done |-> TRUE, user_data |-> capiUserData(aiIn.userData)]
    /\ UNCHANGED <<db, req, started, aiIn, setup>>

NextCapi == BuildEvent

SpecCapi == InitCapi /\ [][NextCapi]_vars

\* the string without its leading and trailing blanks, in lower case
normalForm(x) ==
    LET kept == { i \in 1..Len(x) : x[i] # " " }
        first == CHOOSE i \in kept : \A j \in kept : i <= j
        last == CHOOSE i \in kept : \A j \in kept : j <= i
    IN  IF kept = {} THEN <<>>
        ELSE [i \in 1..(last - first + 1) |->
                 IF x[first + i - 1] = "A" THEN "a" ELSE x[first + i - 1]]

\* the entry an optional field must have, given its normalized value
statedEntry(field, normalized) ==
    IF field.present /\ field.value # <<>>
    THEN [present |-> TRUE, value |-> [sha256 |-> normalized]]
    ELSE [present |-> FALSE, value |-> <<>>]

(***************************************************************************)
(* C27: hashUserData is insensitive to letter case and surrounding         *)
(* whitespace (two inputs with the same lower-cased, trimmed form hash to  *)
(* the same value), and in every envelope the email, phone (reduced to its *)
(* digits), first-name and last-name entries are hashes of the normalized  *)
(* values, with absent fields omitted.                                     *)
(***************************************************************************)
C27_HashedNormalizedUserData ==
    aiOut.done
    => LET u == aiIn.userData
           out == aiOut.user_data
       IN  /\ (/\ u.email.present /\ u.firstName.present
               /\ normalForm(u.email.value) = normalForm(u.firstName.value))
              => hashUserData(u.email.value) = hashUserData(u.firstName.value)
           /\ out.em = statedEntry(u.email, normalForm(u.email.value))
           /\ out.fn = statedEntry(u.firstName, normalForm(u.firstName.value))
           /\ out.ln = statedEntry(u.lastName, normalForm(u.lastName.value))
           /\ out.ph = IF u.phone.present
                          /\ \E i \in 1..Len(u.phone.value) : TRUE
                       THEN [present |-> TRUE,
                             value |-> [sha256 |->
                                SelectSeq(u.phone.value, LAMBDA c : c # "-")]]
                       ELSE [present |-> FALSE, value |-> <<>>]

\* the email " A" and the first name "a" were sent under the same digest,
\* the phone "1-" as the digest of "1", and the last name was left out
C27_Witness ==
    /\ aiOut.done
    /\ aiIn.userData.email = [present |-> TRUE, value |-> <<" ", "A">>]
    /\ aiIn.userData.firstName = [present |-> TRUE, value |-> <<"a">>]
    /\ aiIn.userData.phone = [present |-> TRUE, value |-> <<"1", "-">>]
    /\ ~aiIn.userData.lastName.present
    /\ aiOut.user_data.em = aiOut.user_data.fn
    /\ aiOut.user_data.ph.value = [sha256 |-> <<"1">>]
    /\ ~aiOut.user_data.ln.present

(***************************************************************************)
(* parseLeadData on its own: any list of up to MaxParsed fields whose      *)
(* names are known names in either case or custom names, possibly          *)
(* repeated, each with no, one or two values.                              *)
(***************************************************************************)
MaxParsed == 2      \* fields of a parsed lead form

FieldNames ==
    {"email", "EMAIL", "phone_number", "phone", "Phone", "first_name",
     "last_name", "full_name", "company", "budget"}

LeadFields ==
    [name : FieldNames, values : { <<>>, <<"v1">>, <<"v2", "v1">> }]

NoParse == [done |-> FALSE, parsed |-> NoParsed]

InitParse ==
    /\ pipelines = ownerPipelines
    /\ facebook_configs = {ownerConfig}
    /\ revenue_tracking = <<>>
    /\ contacts = emptyTables.contacts
    /\ assignments = emptyTables.assignments
    /\ logs = emptyTables.logs
    /\ capi = emptyTables.capi
    /\ messages = <<>>
    /\ req = [r \in Slots |-> Idle]
    /\ started = 0
    /\ \E l \in Batches(LeadFields, MaxParsed) :
          aiIn = [fn |-> "parseLeadData", fieldData |-> l]
    /\ aiOut = NoParse

Parse ==
    /\ aiIn.fn = "parseLeadData"
    /\ ~aiOut.done
    /\ aiOut' = [done |-> TRUE, parsed |-> parseLeadData(aiIn.fieldData)]
    /\ UNCHANGED <<db, req, started, aiIn, setup>>

NextParse == Parse

SpecParse == InitParse /\ [][NextParse]_vars

\* the place the claim gives a field name: a known field, or custom
placeOf(name) ==
    IF name \in {"email", "EMAIL"} THEN "email"
    ELSE IF name \in {"phone_number", "phone", "Phone"} THEN "phone"
    ELSE IF name = "first_name" THEN "firstName"
    ELSE IF name = "last_name" THEN "lastName"
    ELSE IF name = "full_name" THEN "fullName"
    ELSE "customFields"

KnownPlaces == {"email", "phone", "firstName", "lastName", "fullName"}

\* what the result holds at the place of the field (Undefined: nothing)
storedFor(parsed, field) ==
    IF placeOf(field.name) = "customFields"
    THEN IF field.name \in DOMAIN parsed.customFields
         THEN parsed.customFields[field.name]
         ELSE Undefined
    ELSE parsed[placeOf(field.name)]

\* the slot of the result the field is written to
slotOf(field) ==
    IF placeOf(field.name) = "customFields" THEN field.name
    ELSE placeOf(field.name)

\* known fields that do not occur are absent, and the custom-fields map has
\* exactly the custom names of the input
nothingElseStored(parsed, fieldData) ==
    /\ \A p \in KnownPlaces :
          (\A i \in 1..Len(fieldData) : placeOf(fieldData[i].name) # p)
             => parsed[p] = Undefined
    /\ DOMAIN parsed.customFields =
          { fieldData[i].name : i \in { j \in 1..Len(fieldData) :
                                          placeOf(fieldData[j].name) = "customFields" } }

(***************************************************************************)
(* C28 as stated: every input field ends up in its place, the stored value *)
(* being the field's first value, and known fields that do not occur are   *)
(* absent.                                                                 *)
(***************************************************************************)
C28_EveryFieldStored ==
    aiOut.done
    => /\ \A i \in 1..Len(aiIn.fieldData) :
             Len(aiIn.fieldData[i].values) > 0
                => storedFor(aiOut.parsed, aiIn.fieldData[i])
                      = aiIn.fieldData[i].values[1]
       /\ nothingElseStored(aiOut.parsed, aiIn.fieldData)

(***************************************************************************)
(* C28 amended: parseLeadData is total; every input field that is the last *)
(* of the list written to its slot (a known field by its lower-cased name, *)
(* phone_number and phone being the same slot, otherwise the custom-fields *)
(* map under its original name) is stored there with its first value, or   *)
(* the empty string when it has no value; an earlier field of the same     *)
(* slot is overwritten; known fields that do not occur are absent.         *)
(***************************************************************************)
C28_LastFieldOfSlotStored ==
    aiOut.done
    => /\ \A i \in 1..Len(aiIn.fieldData) :
             (\A j \in (i + 1)..Len(aiIn.fieldData) :
                 slotOf(aiIn.fieldData[j]) # slotOf(aiIn.fieldData[i]))
             => storedFor(aiOut.parsed, aiIn.fieldData[i])
                   = (IF Len(aiIn.fieldData[i].values) > 0
                      THEN aiIn.fieldData[i].values[1]
                      ELSE "")
       /\ nothingElseStored(aiOut.parsed, aiIn.fieldData)

\* EMAIL with two values and the custom field budget without a value were
\* parsed: email is the first value and budget is kept as the empty string
C28_Witness ==
    /\ aiOut.done
    /\ aiIn.fieldData = << [name |-> "EMAIL", values |-> <<"v2", "v1">>],
                           [name |-> "budget", values |-> <<>>] >>
    /\ aiOut.parsed.email = "v2"
    /\ aiOut.parsed.customFields["budget"] = ""
    /\ aiOut.parsed.phone = Undefined

(***************************************************************************)
(* The candidate list of the handlers on its own: the default pipeline has *)
(* any of the stages s1, s2, s3 with any order_index in 0..MaxOrder (the   *)
(* column is not unique), the handler sorts them and hands them to         *)
(* assignContactToStage.                                                   *)
(***************************************************************************)
MaxOrder == 2       \* largest order_index of a stage

StageNames == {"s1", "s2", "s3"}

StageRows ==
    { { [id |-> n, pipeline_id |-> "p1", order_index |-> ord[n],
         capi_event_name |-> Undefined] : n \in present } :
        present \in SUBSET StageNames, ord \in [StageNames -> 0..MaxOrder] }

NoStages == [pc |-> "start", stages |-> <<>>, resp |-> NoCall.resp,
             suggestion |-> NoSuggestion]

InitStages ==
    /\ pipelines = ownerPipelines
    /\ facebook_configs = {ownerConfig}
    /\ revenue_tracking = <<>>
    /\ contacts = emptyTables.contacts
    /\ assignments = emptyTables.assignments
    /\ logs = emptyTables.logs
    /\ capi = emptyTables.capi
    /\ messages = <<>>
    /\ req = [r \in Slots |-> Idle]
    /\ started = 0
    /\ \E rows \in StageRows : aiIn = [fn |-> "sortStages", rows |-> rows]
    /\ aiOut = NoStages

\* const stages = pipeline.pipeline_stages.sort(...), behind the test that
\* the pipeline has stages
Stages_Sort ==
    /\ aiIn.fn = "sortStages"
    /\ aiOut.pc = "start"
    /\ aiIn.rows # {}
    /\ aiOut' = [aiOut EXCEPT !.pc = "sorted", !.stages = sortStages(aiIn.rows)]
    /\ UNCHANGED <<db, req, started, aiIn, setup>>

\* await assignContactToStage(contact, messages, stages)
Stages_Select ==
    /\ aiIn.fn = "sortStages"
    /\ aiOut.pc = "sorted"
    /\ \E resp \in StageResponses :
          aiOut' = [aiOut EXCEPT !.pc = "selected", !.resp = resp,
                                 !.suggestion = assignContactToStage(resp, aiOut.stages)]
    /\ UNCHANGED <<db, req, started, aiIn, setup>>

NextStages == Stages_Sort \/ Stages_Select

SpecStages == InitStages /\ [][NextStages]_vars

\* the row of the input with this id
rowOf(rows, id) == CHOOSE s \in rows : s.id = id

(***************************************************************************)
(* C29: the candidate list handed to the selector holds the default        *)
(* pipeline's stages, each once, by order_index ascending; the first stage *)
(* the selector falls back to when the model names no valid stage is a     *)
(* stage of minimal order_index; s1 (order_index 1), s2 (order_index 0)    *)
(* are handed over as s2, s1.                                              *)
(***************************************************************************)
C29_CandidatesByOrderIndex ==
    aiOut.pc # "start"
    => /\ Len(aiOut.stages) = Cardinality(aiIn.rows)
       /\ { aiOut.stages[i] : i \in 1..Len(aiOut.stages) } = aiIn.rows
       /\ \A i, j \in 1..Len(aiOut.stages) :
             i < j => aiOut.stages[i].order_index <= aiOut.stages[j].order_index
       /\ ({ [id |-> s.id, order_index |-> s.order_index] : s \in aiIn.rows }
              = { [id |-> "s1", order_index |-> 1], [id |-> "s2", order_index |-> 0] }
           => aiOut.stages[1].id = "s2" /\ aiOut.stages[2].id = "s1")
       /\ (/\ aiOut.pc = "selected"
           /\ aiOut.resp.key /\ aiOut.resp.ok
           /\ \/ aiOut.resp.content.kind \in {"garbage", "empty"}
              \/ /\ aiOut.resp.content.kind = "object"
                 /\ aiOut.resp.content.wrap # "prose"
                 /\ aiOut.resp.content.obj.stage_id \in {"nonexistent", Undefined})
          => /\ ~aiOut.suggestion.threw
             /\ \E s \in aiIn.rows : s.id = aiOut.suggestion.recommended_stage_id
             /\ \A t \in aiIn.rows :
                   rowOf(aiIn.rows, aiOut.suggestion.recommended_stage_id).order_index
                      <= t.order_index

\* the stages s1 (order_index 1) and s2 (order_index 0) were handed over as
\* s2, s1 and the selector, given no JSON, fell back to s2
C29_Witness ==
    /\ aiOut.pc = "selected"
    /\ { [id |-> s.id, order_index |-> s.order_index] : s \in aiIn.rows }
          = { [id |-> "s1", order_index |-> 1], [id |-> "s2", order_index |-> 0] }
    /\ Len(aiOut.stages) = 2
    /\ aiOut.stages[1].id = "s2"
    /\ aiOut.stages[2].id = "s1"
    /\ aiOut.resp.key /\ aiOut.resp.ok
    /\ aiOut.resp.content.kind = "garbage"
    /\ aiOut.suggestion.recommended_stage_id = "s2"

(***************************************************************************)
(* The external calls of one webhook event, in the order the handlers      *)
(* reach them: the lead fetch, the analysis call, the stage-selection      *)
(* call, the CAPI post (the steps between them touch only the tables).     *)
(***************************************************************************)
AnalysisPcs == {"lead_analyze", "msg_analyze", "re_analyze"}
SelectionPcs == {"lead_assign"} \cup SelectPcs
EventPcs ==
    StartPcs \cup AnalysisPcs \cup SelectionPcs \cup UpsertPcs \cup CapiPcs

callRank(pc) ==
    IF pc \in StartPcs THEN 1
    ELSE IF pc \in AnalysisPcs THEN 2
    ELSE IF pc \in SelectionPcs THEN 3
    ELSE IF pc \in UpsertPcs THEN 4
    ELSE 5

\* the step of slot r stays within the event it is processing
sameEvent(r) ==
    /\ req'[r].pc \in EventPcs
    /\ req'[r].kind = req[r].kind
    /\ req'[r].event = req[r].event
    /\ Len(req'[r].queue) = Len(req[r].queue)

(***************************************************************************)
(* C30: while one event is processed no external call is retried: a        *)
(* handler that has made the lead fetch, the analysis call, the            *)
(* stage-selection call or the CAPI post moves on or ends the event,       *)
(* whether the call succeeded or not, and never comes back to a call it    *)
(* has made; every CAPI post is one post of a handler that thereby leaves  *)
(* the post.                                                               *)
(***************************************************************************)
C30_NoCallRetried ==
    [][ /\ \A r \in Slots :
              (req[r].pc \in EventPcs /\ req'[r] # req[r] /\ sameEvent(r))
                 => callRank(req'[r].pc) > callRank(req[r].pc)
        /\ capi' # capi
              => /\ BagCardinality(capi') = BagCardinality(capi) + 1
                 /\ \E r \in Slots : req[r].pc \in CapiPcs /\ req'[r] # req[r]
      ]_vars

\* one event was accepted and is over, and its only CAPI post failed
C30_Witness ==
    /\ started = 1
    /\ \A r \in Slots : req[r].pc = "idle"
    /\ BagCardinality(capi) = 1
    /\ \E c \in BagToSet(capi) : ~c.ok

(***************************************************************************)
(* The webhook handlers on tables that already hold rows: the lead L1 was  *)
(* processed (two log rows) and may have sent one earlier message.         *)
(***************************************************************************)
InitAppend ==
    /\ pipelines = ownerPipelines
    /\ facebook_configs = {ownerConfig}
    /\ revenue_tracking = <<>>
    /\ contacts = processedLead.contacts
    /\ assignments = processedLead.assignments
    /\ logs = processedLead.logs
    /\ capi = processedLead.capi
    /\ \E stored \in 0..1 : messages = [i \in 1..stored |-> earlierMessage]
    /\ req = [r \in Slots |-> Idle]
    /\ started = 0
    /\ aiIn = NoCall
    /\ aiOut = NoOut

NextAppend ==
    \E r \in Slots :
        \/ FacebookPOST(r, FacebookSignatures, LeadgenEvents \cup MessagingEvents)
        \/ processLeadgenEvent(r)
        \/ processMessagingEvent(r)
        \/ MessengerPOST(r, FacebookSignatures, HelloEvents)
        \/ Mgr_Save(r)
        \/ reanalyzeContactWithConversation(r)

SpecAppend == InitAppend /\ [][NextAppend]_vars

(***************************************************************************)
(* C31: the webhook handlers only append to messages and ai_analysis_logs: *)
(* every step leaves every stored message where it is and as it is, adding *)
(* rows only at the end, and leaves every log row in place.                *)
(***************************************************************************)
C31_MessagesAndLogsAppendOnly ==
    [][ /\ Len(messages') >= Len(messages)
        /\ SubSeq(messages', 1, Len(messages)) = messages
        /\ logs \sqsubseteq logs'
      ]_vars

\* the earlier message is still stored before the message m1 saved after it,
\* and a lead handler has added log rows to the two that were there
C31_Witness ==
    /\ Len(messages) = 2
    /\ messages[1] = earlierMessage
    /\ messages[2].facebook_message_id = "m1"
    /\ BagCardinality(logs) > BagCardinality(processedLead.logs)
    /\ processedLead.logs \sqsubseteq logs

(***************************************************************************)
(* C32: in every reachable state every row of contact_stage_assignments    *)
(* (written by the lead handler, by the message handlers' re-analysis or   *)
(* by the bulk analyze endpoint) names a stage of the pipeline the row     *)
(* names.                                                                  *)
(***************************************************************************)
C32_StageOfNamedPipeline ==
    \A a \in assignments :
        \E s \in pipeline_stages :
            s.id = a.stage_id /\ s.pipeline_id = a.pipeline_id

\* the contact holds a stage of the default pipeline p1, written by a
\* webhook handler, and the stage t1 of the pipeline p2, written by the
\* bulk analyze endpoint
C32_Witness ==
    /\ \E a \in assignments :
          a.contact_id = 1 /\ a.pipeline_id = "p1" /\ a.stage_id = "s3"
    /\ \E a \in assignments :
          a.contact_id = 1 /\ a.pipeline_id = "p2" /\ a.stage_id = "t1"

\* the contact holds one row in the default pipeline and rows in others
inSeveralPipelines(table, contact_id) ==
    /\ Cardinality(heldRows(table, contact_id)) = 1
    /\ \E x \in table : x.contact_id = contact_id /\ x.pipeline_id # defaultPipeline

(***************************************************************************)
(* C33: the current stage a message handler compares the selected stage    *)
(* with is the contact's row in the default pipeline, also when the        *)
(* contact holds rows in several pipelines: a handler that then selects    *)
(* the stage held in the default pipeline goes on to no write (and so to   *)
(* no export).                                                             *)
(***************************************************************************)
C33_ComparesWithDefaultPipelineRow ==
    [][\A r \in Slots :
         (/\ req[r].pc \in SelectPcs
          /\ req'[r] # req[r]
          /\ inSeveralPipelines(assignments, req[r].contact)
          /\ req'[r].pc \in UpsertPcs)
         => \A x \in heldRows(assignments, req[r].contact) :
               x.stage_id # req'[r].selected]_vars

\* the export steps of the message handlers
MessageCapiPcs == {"msg_capi", "re_capi"}

(***************************************************************************)
(* C34: when two message handlers of one contact run concurrently and both *)
(* move it from s1 to s3, one CAPI event is exported for the change: the   *)
(* two handlers never both stand at the post of the event of s3 for the    *)
(* contact (a handler at its post sends one event, whatever the other one  *)
(* does).                                                                  *)
(***************************************************************************)
C34_OneExportPerConcurrentMove ==
    \A r1, r2 \in Slots :
        (/\ r1 # r2
         /\ req[r1].pc \in MessageCapiPcs
         /\ req[r1].selected = "s3"
         /\ req[r2].contact = req[r1].contact
         /\ req[r2].selected = "s3")
        => req[r2].pc \notin MessageCapiPcs

(***************************************************************************)
(* The Messenger webhook with the processed lead L1, and                   *)
(* analyzeConversationIntent called on its own on every answer of the      *)
(* endpoint after an analysis of each urgency.                             *)
(***************************************************************************)
InitIntent ==
    /\ pipelines = ownerPipelines
    /\ facebook_configs = {ownerConfig}
    /\ revenue_tracking = <<>>
    /\ contacts = processedLead.contacts
    /\ assignments = processedLead.assignments
    /\ logs = processedLead.logs
    /\ capi = processedLead.capi
    /\ messages = <<>>
    /\ req = [r \in Slots |-> Idle]
    /\ started = 0
    /\ aiIn = NoCall
    /\ aiOut = NoOut

\* const conversationInsights = await analyzeConversationIntent(...)
Intent_Call ==
    /\ aiIn = NoCall
    /\ started = 0
    /\ \A r \in Slots : req[r].kind = "idle"
    /\ \E resp \in IntentResponses, u \in Urgencies :
         LET baseAnalysis == [FallbackAnalysis EXCEPT !.urgency = u] IN
         /\ aiIn' = [fn |-> "analyzeConversationIntent", resp |-> resp,
                     baseAnalysis |-> baseAnalysis]
         /\ aiOut' = [done |-> TRUE,
                      insights |-> analyzeConversationIntent(resp, baseAnalysis)]
    /\ UNCHANGED <<db, req, started, setup>>

\* the handlers run while the function has not been called on its own
NextIntent ==
    \/ Intent_Call
    \/ \E r \in Slots :
          /\ aiIn = NoCall
          /\ \/ MessengerPOST(r, FacebookSignatures, HelloEvents)
             \/ Mgr_Save(r)
             \/ reanalyzeContactWithConversation(r)

SpecIntent == InitIntent /\ [][NextIntent]_vars

\* the call failed or its text held no JSON object
intentFailed(resp) == ~resp.ok \/ resp.kind # "object"

(***************************************************************************)
(* C35: when the conversation-intent call fails or returns no JSON object, *)
(* analyzeConversationIntent answers should_move_stage = false with the    *)
(* urgency of the preceding analysis; a re-analysis that got this answer   *)
(* (it stores the answer's intent 'unknown' and an urgency of the          *)
(* analysis) goes on to no stage selection, leaves the assignments as      *)
(* they are and exports nothing.                                           *)
(***************************************************************************)
C35_FailedIntentMovesNothing ==
    [][ /\ (aiIn'.fn = "analyzeConversationIntent" /\ intentFailed(aiIn'.resp))
              => /\ aiOut'.insights.should_move_stage = FALSE
                 /\ aiOut'.insights.urgency = aiIn'.baseAnalysis.urgency
        /\ \A r \in Slots :
              (/\ req[r].pc = "re_analyze"
               /\ req'[r] # req[r]
               /\ contacts' # contacts
               /\ contacts'[req[r].contact].ai_analysis.intent = "unknown")
              => /\ contacts'[req[r].contact].ai_analysis.urgency \in Urgencies
                 /\ req'[r].pc \notin {"re_select", "re_upsert", "re_capi"}
                 /\ assignments' = assignments
                 /\ capi' = capi
      ]_vars

\* a re-analysis whose intent call returned no JSON object has ended: the
\* contact carries the default answer's intent, its stage is still s1 and
\* nothing was exported after the lead's event
C35_Witness ==
    /\ started = 1
    /\ \A r \in Slots : req[r].pc = "idle"
    /\ Len(messages) = 1
    /\ contacts[1].ai_analysis.intent = "unknown"
    /\ contacts[1].ai_analysis.message_count = 1
    /\ assignments = processedLead.assignments
    /\ capi = processedLead.capi

(***************************************************************************)
(* The keyword detection of the Facebook webhook's message handler: on its *)
(* own on every text made of up to MaxWords phrases (the keywords, some of *)
(* them in capitals, parts of a keyword and words that are none) after an  *)
(* analysis of each urgency, and in the handler for the messages of the    *)
(* processed lead L1.                                                      *)
(***************************************************************************)
MaxWords == 2       \* phrases of a text

Phrases ==
    { <<"b", "u", "y">>,
      <<"p", "u", "r", "c", "h", "a", "s", "e">>,
      <<"o", "r", "d", "e", "r">>,
      <<"n", "o", "t", " ", "i", "n", "t", "e", "r", "e", "s", "t", "e", "d">>,
      <<"c", "a", "n", "c", "e", "l">>,
      <<"p", "r", "i", "c", "e">>,
      <<"q", "u", "o", "t", "e">>,
      <<"c", "o", "s", "t">>,
      <<"B", "u", "y">>,
      <<"C", "A", "N", "C", "E", "L">>,
      <<"P", "r", "i", "c", "e">>,
      <<"h", "e", "l", "l", "o">>,
      <<"n", "o", "t">>,
      <<" ", "i", "n", "t", "e", "r", "e", "s", "t", "e", "d">> }

RECURSIVE Phrasings(_)
Phrasings(n) ==
    IF n = 0 THEN { <<>> }
    ELSE LET shorter == Phrasings(n - 1)
         IN  shorter \cup { t \o w : t \in shorter, w \in Phrases }

NoDecision == [done |-> FALSE,
               decision |-> [shouldMoveStage |-> FALSE, newUrgency |-> Undefined]]

InitKeyword ==
    /\ pipelines = ownerPipelines
    /\ facebook_configs = {ownerConfig}
    /\ revenue_tracking = <<>>
    /\ contacts = processedLead.contacts
    /\ assignments = processedLead.assignments
    /\ logs = processedLead.logs
    /\ capi = processedLead.capi
    /\ messages = <<>>
    /\ req = [r \in Slots |-> Idle]
    /\ started = 0
    /\ aiIn = NoCall
    /\ aiOut = NoOut

\* the detection between analyzeContact and the update of the contact
Keyword_Decide ==
    /\ aiIn = NoCall
    /\ started = 0
    /\ \A r \in Slots : req[r].kind = "idle"
    /\ \E text \in Phrasings(MaxWords), u \in Urgencies :
         /\ aiIn' = [fn |-> "keywordDecision", text |-> text, urgency |-> u]
         /\ aiOut' = [done |-> TRUE, decision |-> keywordDecision(text, u)]
    /\ UNCHANGED <<db, req, started, setup>>

\* the handlers run while the detection has not been called on its own
NextKeyword ==
    \/ Keyword_Decide
    \/ \E r \in Slots :
          /\ aiIn = NoCall
          /\ \/ FacebookPOST(r, FacebookSignatures, MessagingEvents)
             \/ processMessagingEvent(r)

SpecKeyword == InitKeyword /\ [][NextKeyword]_vars

\* the lower-cased text contains one of the words
containsAny(text, words) ==
    \E w \in words : includes(lowerCased(text), w)

HighWords == {Keyword.buy, Keyword.purchase, Keyword.order}
LowWords == {Keyword.not_interested, Keyword.cancel}
MediumWords == {Keyword.price, Keyword.quote, Keyword.cost}

hasKeyword(text) == containsAny(text, HighWords \cup LowWords \cup MediumWords)

\* the urgency the claim gives a text after an analysis with this urgency
statedUrgency(text, urgency) ==
    IF containsAny(text, HighWords) THEN "high"
    ELSE IF containsAny(text, LowWords) THEN "low"
    ELSE IF containsAny(text, MediumWords) THEN "medium"
    ELSE urgency

(***************************************************************************)
(* C36: in the Facebook webhook's message handler stage selection runs     *)
(* only for a message whose lower-cased text contains one of the keywords  *)
(* buy, purchase, order, not interested, cancel, price, quote, cost; the   *)
(* stored urgency is high with buy, purchase or order, otherwise low with  *)
(* not interested or cancel, otherwise medium with price, quote or cost;   *)
(* with no keyword the urgency of the analysis is stored and the           *)
(* assignment is left as it is.                                            *)
(***************************************************************************)
C36_KeywordsDecide ==
    [][ /\ aiIn'.fn = "keywordDecision"
              => /\ aiOut'.decision.shouldMoveStage = hasKeyword(aiIn'.text)
                 /\ aiOut'.decision.newUrgency
                       = statedUrgency(aiIn'.text, aiIn'.urgency)
        /\ \A r \in Slots :
              (req[r].pc = "msg_analyze" /\ req'[r] # req[r])
              => LET text == charsOf(req[r].event.text)
                     stored == contacts'[req[r].contact].ai_analysis
                 IN  /\ req'[r].pc = "msg_select" => hasKeyword(text)
                     /\ (contacts' # contacts /\ hasKeyword(text))
                           => /\ req'[r].pc = "msg_select"
                              /\ stored.urgency = statedUrgency(text, Undefined)
                     /\ ~hasKeyword(text)
                           => /\ stored.urgency \in Urgencies
                              /\ req'[r].pc \notin {"msg_select", "msg_upsert", "msg_capi"}
                              /\ assignments' = assignments
      ]_vars

\* the text BuyCANCEL after an analysis with urgency medium: a move, with
\* urgency high
C36_Witness ==
    /\ aiIn.fn = "keywordDecision"
    /\ aiIn.text = <<"B", "u", "y", "C", "A", "N", "C", "E", "L">>
    /\ aiIn.urgency = "medium"
    /\ aiOut.decision.shouldMoveStage
    /\ aiOut.decision.newUrgency = "high"

(***************************************************************************)
(* The first step of both message handlers on the events they pass over:   *)
(* a message without text, a message of a sender who is no contact, and    *)
(* the message hello of L1, which is passed over when the page of the      *)
(* event has no configuration. The tables are empty or hold the processed  *)
(* lead L1.                                                                *)
(***************************************************************************)
NoTextEvents ==
    { [type |-> "message", id |-> s, mid |-> m, text |-> Undefined] :
        s \in Senders, m \in MessageIds }

PassedOverEvents == StrangerEvents \cup NoTextEvents \cup HelloEvents

InitPassedOver ==
    /\ pipelines = ownerPipelines
    /\ facebook_configs = {ownerConfig}
    /\ revenue_tracking = <<>>
    /\ \E tables \in {emptyTables, processedLead} :
         /\ contacts = tables.contacts
         /\ assignments = tables.assignments
         /\ logs = tables.logs
         /\ capi = tables.capi
    /\ messages = <<>>
    /\ req = [r \in Slots |-> Idle]
    /\ started = 0
    /\ aiIn = NoCall
    /\ aiOut = NoOut

NextPassedOver ==
    \E r \in Slots :
        \/ FacebookPOST(r, FacebookSignatures, PassedOverEvents)
        \/ Msg_Save(r)
        \/ MessengerPOST(r, FacebookSignatures, PassedOverEvents)
        \/ Mgr_Save(r)

SpecPassedOver == InitPassedOver /\ [][NextPassedOver]_vars

\* no contact of the page carries the sender's id as psid or as lead id
noContactOf(table, senderId) ==
    \A i \in 1..Len(table) :
        \/ table[i].facebook_page_id # ownerConfig.page_id
        \/ /\ table[i].facebook_lead_id # senderId
           /\ ("psid" \in DOMAIN table[i].custom_fields
                  => table[i].custom_fields["psid"] # senderId)

(***************************************************************************)
(* C37: a message event without text or of a sender matching no contact of *)
(* the page ends in the handler's first step, and a handler that ends in   *)
(* its first step (as it also does for a page without a configuration)     *)
(* leaves every table as it is: no message, contact, assignment or log row *)
(* is written and no call is made.                                         *)
(***************************************************************************)
C37_PassedOverEventWritesNothing ==
    [][\A r \in Slots :
         (req[r].pc \in {"msg_save", "mgr_save"} /\ req'[r] # req[r])
         => LET ev == req[r].event
                ended == req'[r].pc \notin {"msg_analyze", "re_analyze"}
            IN  /\ (ev.text \in {Undefined, ""} \/ noContactOf(contacts, ev.id)) => ended
                /\ ended => /\ contacts' = contacts
                            /\ messages' = messages
                            /\ assignments' = assignments
                            /\ logs' = logs
                            /\ capi' = capi]_vars

\* two events were accepted with the processed lead in the tables, both
\* were passed over in the handler's first step (an event that is not stays
\* in its second step here), and nothing was written
C37_Witness ==
    /\ started = 2
    /\ \A r \in Slots : req[r].pc = "idle"
    /\ Len(contacts) = 1
    /\ messages = <<>>
    /\ assignments = processedLead.assignments
    /\ logs = processedLead.logs
    /\ capi = processedLead.capi

(***************************************************************************)
(* POST /api/revenue: the session check, the body check and the lookup of  *)
(* the contact; then the insert into revenue_tracking, the read of the     *)
(* contact's actual_revenue, the update that writes what was read plus the *)
(* amount, and, with send_to_facebook, the Purchase event and the two      *)
(* updates that record it. Each awaited call is a step of its own. The     *)
(* contact id 0 stands for a body without contact_id, an id past the end   *)
(* of the table for a contact the owner does not have. currency,           *)
(* revenue_type, description and converted_at are left out.                *)
(***************************************************************************)
MaxAmount == 2      \* largest amount of one request

BadRequest == 400
NotFound == 404
ServerError == 500

RevenueBodies ==
    [contact_id : 0..2, amount : 0..MaxAmount, send_to_facebook : BOOLEAN]

\* a row of revenue_tracking
revenueRow(contact_id, amount) ==
    [contact_id |-> contact_id, amount |-> amount, capi_event_sent |-> FALSE]

\* the answer of a request that ends before it writes
revenueRejected(status) == [Idle EXCEPT !.status = status]

\* .from('facebook_configs').select('*').eq('user_id', user.id)
\*     .not('dataset_id', 'is', null).single()
revenueConfig ==
    { c \in facebook_configs : c.user_id = "owner" /\ truthy(c.dataset_id) }

\* after the update of the contact: if (send_to_facebook) with
\* if (fbConfig?.dataset_id), else the answer
afterRevenueUpdate(rq) ==
    IF rq.send_to_facebook /\ revenueConfig # {}
    THEN [rq EXCEPT !.pc = "rev_capi"]
    ELSE Idle

RevenuePOST(r) ==
    /\ req[r].kind = "idle"
    /\ started + 1 <= MaxEvents
    /\ started' = started + 1
    /\ \E authorized \in BOOLEAN, body \in RevenueBodies :
         req' = [req EXCEPT ![r] =
                   IF ~authorized THEN revenueRejected(Unauthorized)
                   ELSE IF body.contact_id = 0 \/ body.amount = 0
                        THEN revenueRejected(BadRequest)
                   ELSE IF ~contactExists(contacts, body.contact_id)
                        THEN revenueRejected(NotFound)
                   ELSE [Idle EXCEPT !.kind = "revenue",
                                     !.pc = "rev_insert",
                                     !.contact = body.contact_id,
                                     !.amount = body.amount,
                                     !.send_to_facebook = body.send_to_facebook]]
    /\ UNCHANGED <<db, ai, setup>>

\* .from('revenue_tracking').insert({ contact_id, amount, ... }).select()
\*     .single(); on an error the request is answered 500
Rev_Insert(r) ==
    /\ req[r].pc = "rev_insert"
    /\ \E insertOk \in BOOLEAN :
         IF insertOk
         THEN /\ revenue_tracking' =
                    Append(revenue_tracking,
                           revenueRow(req[r].contact, req[r].amount))
              /\ req' = [req EXCEPT ![r].pc = "rev_read",
                                    ![r].revenue = Len(revenue_tracking) + 1]
         ELSE /\ revenue_tracking' = revenue_tracking
              /\ req' = [req EXCEPT ![r] = revenueRejected(ServerError)]
    /\ UNCHANGED <<db, started, ai, pipelines, facebook_configs>>

\* .from('contacts').select('actual_revenue').eq('id', contact_id).single()
Rev_Read(r) ==
    /\ req[r].pc = "rev_read"
    /\ req' = [req EXCEPT ![r].pc = "rev_update",
                          ![r].current = contacts[req[r].contact].actual_revenue]
    /\ UNCHANGED <<db, started, ai, setup>>

\* actual_revenue: (currentContact?.actual_revenue || 0) + amount, where
\* currentContact is what the select before the update returned
updatedRevenue(current, amount) == current + amount

\* .from('contacts').update({ actual_revenue: ... }).eq('id', contact_id)
Rev_Update(r) ==
    /\ req[r].pc = "rev_update"
    /\ contacts' = [contacts EXCEPT ![req[r].contact].actual_revenue =
                      updatedRevenue(req[r].current, req[r].amount)]
    /\ req' = [req EXCEPT ![r] = afterRevenueUpdate(req[r])]
    /\ UNCHANGED <<messages, assignments, logs, capi, started, ai, setup>>

\* sendConversionEvent(fbConfig.dataset_id, ..., 'Purchase', ...); what it
\* throws is caught and logged, and the request is answered
Rev_Capi(r) ==
    /\ req[r].pc = "rev_capi"
    /\ \E httpOk \in BOOLEAN, config \in revenueConfig :
         LET sent == sendConversionEvent(config.dataset_id, "Purchase",
                                         req[r].contact, Undefined, httpOk)
         IN  /\ capi' = capi (+) SetToBag({sent.call})
             /\ req' = [req EXCEPT ![r] = IF sent.threw THEN Idle
                                          ELSE [@ EXCEPT !.pc = "rev_sent"]]
    /\ UNCHANGED <<contacts, messages, assignments, logs, started, ai, setup>>

\* .from('revenue_tracking').update({ capi_event_sent: true, ... })
\*     .eq('id', revenue.id)
Rev_Sent(r) ==
    /\ req[r].pc = "rev_sent"
    /\ revenue_tracking' =
         [revenue_tracking EXCEPT ![req[r].revenue].capi_event_sent = TRUE]
    /\ req' = [req EXCEPT ![r].pc = "rev_contact"]
    /\ UNCHANGED <<db, started, ai, pipelines, facebook_configs>>

\* .from('contacts').update({ conversion_event_sent: true })
\*     .eq('id', contact_id)
Rev_Contact(r) ==
    /\ req[r].pc = "rev_contact"
    /\ contacts' = [contacts EXCEPT
                      ![req[r].contact].conversion_event_sent = TRUE]
    /\ req' = [req EXCEPT ![r] = Idle]
    /\ UNCHANGED <<messages, assignments, logs, capi, started, ai, setup>>

InitRevenue ==
    /\ pipelines = ownerPipelines
    /\ facebook_configs \in {{ownerConfig}, {noDatasetConfig}}
    /\ revenue_tracking = <<>>
    /\ contacts = processedLead.contacts
    /\ assignments = processedLead.assignments
    /\ logs = processedLead.logs
    /\ capi = EmptyBag
    /\ messages = <<>>
    /\ req = [r \in Slots |-> Idle]
    /\ started = 0
    /\ aiIn = NoCall
    /\ aiOut = NoOut

NextRevenue ==
    \E r \in Slots :
        \/ RevenuePOST(r)
        \/ Rev_Insert(r)
        \/ Rev_Read(r)
        \/ Rev_Update(r)
        \/ Rev_Capi(r)
        \/ Rev_Sent(r)
        \/ Rev_Contact(r)

SpecRevenue == InitRevenue /\ [][NextRevenue]_vars

RECURSIVE sumOfAmounts(_, _)
\* the sum of the amounts of the revenue_tracking rows of a contact
sumOfAmounts(table, contact_id) ==
    IF table = <<>> THEN 0
    ELSE (IF Head(table).contact_id = contact_id THEN Head(table).amount ELSE 0)
         + sumOfAmounts(Tail(table), contact_id)

\* no POST /api/revenue is between its insert and its update
revenueSettled == \A r \in Slots : req[r].pc \notin {"rev_read", "rev_update"}

\* C38: once every revenue request that inserted its row has also updated
\* the contact, the contact's actual_revenue is the sum of the amounts of
\* its revenue_tracking rows, whatever the interleaving of the requests
C38_RevenueIsSumOfRows ==
    revenueSettled
        => \A c \in 1..Len(contacts) :
             contacts[c].actual_revenue = sumOfAmounts(revenue_tracking, c)

====
